---- MODULE Spec2Model ----
(***************************************************************************)
(* Verification model of the authorization core of core-lab:               *)
(*   - pkg/auth: Claims.HasPermission / IsServiceToken, the Authorizer's   *)
(*     RequirePermission middleware with authenticate / Verify;            *)
(*   - pkg/permissions: the Store (Load, Replace, Lookup, ListByService,   *)
(*     Snapshot, Count) under its RWMutex.                                 *)
(* Strings are sequences of one-character strings, so that trimming and    *)
(* case folding are computed and not assumed.  An int64 is the set of the  *)
(* positions (0..63, 63 the sign bit) of its one bits in two's complement. *)
(***************************************************************************)
EXTENDS Integers, Sequences, FiniteSets, TLC

(***************************************************************************)
(* strings                                                                 *)
(***************************************************************************)

\* unicode.IsSpace restricted to the characters the model's inputs use
WhiteSpace == {" ", "\t"}

UpperCase ==
    <<"A", "B", "C", "D", "E", "F", "G", "H", "I", "J", "K", "L", "M", "N", "O", "P", "Q", "R", "S", "T", "U", "V", "W", "X", "Y", "Z">>

LowerCase ==
    <<"a", "b", "c", "d", "e", "f", "g", "h", "i", "j", "k", "l", "m", "n", "o", "p", "q", "r", "s", "t", "u", "v", "w", "x", "y", "z">>

\* unicode.ToLower on one character
LowerChar(c) ==
    IF \E i \in 1..Len(UpperCase) : UpperCase[i] = c
    THEN LowerCase[CHOOSE i \in 1..Len(UpperCase) : UpperCase[i] = c]
    ELSE c

\* strings.ToLower
ToLower(s) == [i \in 1..Len(s) |-> LowerChar(s[i])]

RECURSIVE TrimLeft(_)
TrimLeft(s) ==
    IF s # <<>> /\ Head(s) \in WhiteSpace THEN TrimLeft(Tail(s)) ELSE s

RECURSIVE TrimRight(_)
TrimRight(s) ==
    IF s # <<>> /\ s[Len(s)] \in WhiteSpace
    THEN TrimRight(SubSeq(s, 1, Len(s) - 1))
    ELSE s

\* strings.TrimSpace
TrimSpace(s) == TrimRight(TrimLeft(s))

\* strings.EqualFold (simple case folding, on the model's alphabet)
EqualFold(s, t) ==
    /\ Len(s) = Len(t)
    /\ \A i \in 1..Len(s) : LowerChar(s[i]) = LowerChar(t[i])

(***************************************************************************)
(* int64 values as sets of bit positions                                   *)
(***************************************************************************)

\* width of an int64
WordBits == 64

BitPos == 0..(WordBits - 1)

\* int64(1) << n, for 0 <= n < 64
ShiftLeftOne(n) == {n}

\* a & b
BitAnd(a, b) == a \cap b

\* a >> n on a signed value (arithmetic shift: the sign bit is replicated)
ShiftRight(a, n) ==
    {b - n : b \in {x \in a : x >= n}}
        \cup (IF (WordBits - 1) \in a THEN (WordBits - 1 - n)..(WordBits - 1) ELSE {})

(***************************************************************************)
(* pkg/auth/claims.go                                                      *)
(***************************************************************************)

\* the number of permission positions one range holds
RangeBits == 63

\* the literal "service" of IsServiceToken
ServiceLit == <<"s", "e", "r", "v", "i", "c", "e">>

\* a Go map read: the zero value (a nil slice) for an absent key
RangesOf(perms, key) == IF key \in DOMAIN perms THEN perms[key] ELSE <<>>

\* a bug: token_use compared exactly
IsServiceTokenExact(c) == c.TokenUse = ServiceLit

IsServiceToken(c) == EqualFold(TrimSpace(c.TokenUse), ServiceLit)

\* the single-mask form's guard: position 0 is "no permission"
HasPermissionZeroDenied(c, service, bitValue) ==
    LET ranges == RangesOf(c.ServicePermissions, ToLower(TrimSpace(service)))
        rangeIndex == bitValue \div RangeBits
        bitMask == ShiftLeftOne(bitValue % RangeBits)
    IN  IF bitValue <= 0 THEN FALSE
        ELSE IF Len(ranges) = 0 THEN FALSE
        ELSE IF rangeIndex < Len(ranges)
             THEN BitAnd(ranges[rangeIndex + 1], bitMask) = bitMask
             ELSE FALSE

\* a range of 64 positions instead of 63
HasPermissionWide(c, service, bitValue) ==
    LET ranges == RangesOf(c.ServicePermissions, ToLower(TrimSpace(service)))
        rangeIndex == bitValue \div WordBits
        bitMask == ShiftLeftOne(bitValue % WordBits)
    IN  IF bitValue < 0 THEN FALSE
        ELSE IF Len(ranges) = 0 THEN FALSE
        ELSE IF rangeIndex < Len(ranges)
             THEN BitAnd(ranges[rangeIndex + 1], bitMask) = bitMask
             ELSE FALSE

HasPermission(c, service, bitValue) ==
    LET ranges == RangesOf(c.ServicePermissions, ToLower(TrimSpace(service)))
        rangeIndex == bitValue \div RangeBits
        positionInRange == bitValue % RangeBits
        bitMask == ShiftLeftOne(positionInRange)
    IN  IF bitValue < 0 THEN FALSE
        ELSE IF Len(ranges) = 0 THEN FALSE
        ELSE IF rangeIndex < Len(ranges)
             THEN BitAnd(ranges[rangeIndex + 1], bitMask) = bitMask
             ELSE FALSE

(***************************************************************************)
(* pkg/auth/authorizer.go: decoding of the svc_perm claim                  *)
(***************************************************************************)

\* strings.Index for a one-character separator: 0 when absent
IndexOf(s, c) ==
    IF \E i \in 1..Len(s) : s[i] = c
    THEN CHOOSE i \in 1..Len(s) : s[i] = c /\ \A j \in 1..(i - 1) : s[j] # c
    ELSE 0

\* strings.Split(s, sep)
RECURSIVE Split(_, _)
Split(s, sep) ==
    LET i == IndexOf(s, sep)
    IN  IF i = 0 THEN <<s>>
        ELSE <<SubSeq(s, 1, i - 1)>> \o Split(SubSeq(s, i + 1, Len(s)), sep)

\* strings.SplitN(s, sep, 2)
SplitN2(s, sep) ==
    LET i == IndexOf(s, sep)
    IN  IF i = 0 THEN <<s>>
        ELSE <<SubSeq(s, 1, i - 1), SubSeq(s, i + 1, Len(s))>>

\* the digits of base 36, in value order
Digits36 ==
    <<"0", "1", "2", "3", "4", "5", "6", "7", "8", "9",
      "a", "b", "c", "d", "e", "f", "g", "h", "i", "j", "k", "l", "m",
      "n", "o", "p", "q", "r", "s", "t", "u", "v", "w", "x", "y", "z">>

IsDigit36(c) == \E i \in 1..Len(Digits36) : Digits36[i] = LowerChar(c)

DigitVal(c) == (CHOOSE i \in 1..Len(Digits36) : Digits36[i] = LowerChar(c)) - 1

RECURSIVE NatOfDigits(_, _)
NatOfDigits(ds, acc) ==
    IF ds = <<>> THEN acc
    ELSE NatOfDigits(Tail(ds), acc * Len(Digits36) + DigitVal(Head(ds)))

RECURSIVE Pow2(_)
Pow2(n) == IF n = 0 THEN 1 ELSE 2 * Pow2(n - 1)

\* the one bits of a natural number below 2^31
NatBits(n) == {i \in 0..30 : (n \div Pow2(i)) % 2 = 1}

\* the int64 of sign and magnitude, in two's complement
Int64Of(neg, n) ==
    IF ~neg THEN NatBits(n)
    ELSE IF n = 0 THEN {}
    ELSE BitPos \ NatBits(n - 1)

\* strconv.ParseInt(s, 36, 64) for tokens whose magnitude stays below 2^31
ParseInt(s) ==
    LET signed == s # <<>> /\ Head(s) \in {"+", "-"}
        digits == IF signed THEN Tail(s) ELSE s
    IN  IF digits = <<>> \/ \E i \in 1..Len(digits) : ~IsDigit36(digits[i])
        THEN [ok |-> FALSE, val |-> {}]
        ELSE [ok |-> TRUE,
              val |-> Int64Of(signed /\ Head(s) = "-", NatOfDigits(digits, 0))]

\* a Go map write
MapPut(m, k, v) == [x \in (DOMAIN m) \cup {k} |-> IF x = k THEN v ELSE m[x]]

\* the inner loop of decodeServicePermissionsMultiRange: unparsable and empty
\* range tokens are skipped
RECURSIVE DecodeRanges(_, _)
DecodeRanges(rangeStrs, ranges) ==
    IF rangeStrs = <<>> THEN ranges
    ELSE LET rangeStr == TrimSpace(Head(rangeStrs))
             parsed == ParseInt(rangeStr)
         IN  IF rangeStr = <<>> \/ ~parsed.ok
             THEN DecodeRanges(Tail(rangeStrs), ranges)
             ELSE DecodeRanges(Tail(rangeStrs), Append(ranges, parsed.val))

RECURSIVE DecodeEntries(_, _)
DecodeEntries(entries, perms) ==
    IF entries = <<>> THEN perms
    ELSE LET entry == TrimSpace(Head(entries))
             parts == SplitN2(entry, ":")
             serviceKey == ToLower(TrimSpace(parts[1]))
             rangesStr == TrimSpace(parts[2])
             ranges == DecodeRanges(Split(rangesStr, ","), <<>>)
         IN  IF entry = <<>> \/ Len(parts) # 2 THEN DecodeEntries(Tail(entries), perms)
             ELSE IF serviceKey = <<>> \/ rangesStr = <<>>
                  THEN DecodeEntries(Tail(entries), perms)
             ELSE IF Len(ranges) > 0
                  THEN DecodeEntries(Tail(entries), MapPut(perms, serviceKey, ranges))
             ELSE DecodeEntries(Tail(entries), perms)

\* the empty Go map
EmptyMap == [x \in {} |-> <<>>]

decodeServicePermissionsMultiRange(raw) ==
    IF TrimSpace(raw) = <<>> THEN EmptyMap
    ELSE DecodeEntries(Split(raw, ";"), EmptyMap)

(***************************************************************************)
(* pkg/auth/authorizer.go: authentication                                  *)
(***************************************************************************)

\* net/http status codes
StatusUnauthorized == 401

StatusForbidden == 403

StatusInternalServerError == 500

StatusOK == 200

\* the literal "Bearer " of extractBearerToken
BearerPrefix == <<"B", "e", "a", "r", "e", "r", " ">>

\* extractBearerToken: [ok, token]
extractBearerToken(header) ==
    LET trimmed == TrimSpace(header)
        token == TrimSpace(SubSeq(trimmed, Len(BearerPrefix) + 1, Len(trimmed)))
    IN  IF trimmed = <<>> THEN [ok |-> FALSE, token |-> <<>>]
        ELSE IF Len(trimmed) <= Len(BearerPrefix)
                \/ ~EqualFold(SubSeq(trimmed, 1, Len(BearerPrefix)), BearerPrefix)
             THEN [ok |-> FALSE, token |-> <<>>]
        ELSE IF token = <<>> THEN [ok |-> FALSE, token |-> <<>>]
        ELSE [ok |-> TRUE, token |-> token]

\* fmt.Sprint of an absent (nil) claim
NilText == <<"<", "n", "i", "l", ">">>

\* the default of an empty token_use
AccessLit == <<"a", "c", "c", "e", "s", "s">>

\* fmt.Sprint(raw[key]) for a string claim: [has, val] is the claim
SprintClaim(claim) == IF claim.has THEN claim.val ELSE NilText

\* the zero Claims value
ZeroClaims == [TokenUse |-> <<>>, ServicePermissions |-> EmptyMap]

mapClaimsToAuthClaims(jwt) ==
    LET tokenUse == TrimSpace(SprintClaim(jwt.token_use))
        svcPermRaw == IF jwt.svc_perm.has THEN jwt.svc_perm.val ELSE <<>>
    IN  [TokenUse |-> IF tokenUse = <<>> THEN AccessLit ELSE tokenUse,
         ServicePermissions |-> decodeServicePermissionsMultiRange(svcPermRaw)]

KeyFuncIgnoresCurve(publicKey, alg) ==
    CASE publicKey.type = "rsa" -> alg.family = "RSA"
      [] publicKey.type = "ecdsa" -> alg.family = "ECDSA"
      [] OTHER -> FALSE

\* the key function Verify hands to jwt.Parse: does the token's signing
\* method fit the configured public key
KeyFuncAccepts(publicKey, alg) ==
    CASE publicKey.type = "rsa" -> alg.family = "RSA"
      [] publicKey.type = "ecdsa" ->
            alg.family = "ECDSA" /\ alg.curveBits = publicKey.curveBits
      [] OTHER -> FALSE

\* jwt.Parse: the token string is well formed, the key function accepts its
\* method, the signature verifies under the returned key and the registered
\* time claims are valid
JwtParseOK(v, tokenString, jwt) ==
    /\ tokenString = jwt.text
    /\ KeyFuncAccepts(v.publicKey, jwt.alg)
    /\ jwt.signature = "good"
    /\ jwt.timeValid

\* the audience check of Verify
AudienceValid(v, aud) ==
    CASE aud.kind = "string" -> \E i \in 1..Len(v.audiences) : v.audiences[i] = aud.vals[1]
      [] aud.kind = "array" ->
            \E i \in 1..Len(v.audiences) :
                \E j \in 1..Len(aud.vals) : aud.vals[j] = v.audiences[i]
      [] OTHER -> FALSE

\* jwtVerifier.Verify: [ok, claims]
Verify(v, tokenString, jwt) ==
    IF ~JwtParseOK(v, tokenString, jwt) THEN [ok |-> FALSE, claims |-> ZeroClaims]
    ELSE IF v.issuer # "" /\ (~jwt.iss.has \/ jwt.iss.val # v.issuer)
         THEN [ok |-> FALSE, claims |-> ZeroClaims]
    ELSE IF Len(v.audiences) > 0 /\ (jwt.aud.kind = "absent" \/ ~AudienceValid(v, jwt.aud))
         THEN [ok |-> FALSE, claims |-> ZeroClaims]
    ELSE [ok |-> TRUE, claims |-> mapClaimsToAuthClaims(jwt)]

\* a bug: the claims are put in the request context before they are verified
authenticateStoreFirst(v, req) ==
    LET bearer == extractBearerToken(req.header)
        verified == Verify(v, bearer.token, req.jwt)
    IN  IF ~bearer.ok
        THEN [ok |-> FALSE, claims |-> ZeroClaims, stored |-> FALSE]
        ELSE [ok |-> verified.ok, claims |-> verified.claims, stored |-> TRUE]

\* Authorizer.authenticate: [ok, claims, stored]; stored tells whether
\* c.Set(CtxAuthClaims, claims) ran
authenticate(v, req) ==
    LET bearer == extractBearerToken(req.header)
        verified == Verify(v, bearer.token, req.jwt)
    IN  IF ~bearer.ok
        THEN [ok |-> FALSE, claims |-> ZeroClaims, stored |-> FALSE]
        ELSE IF ~verified.ok
        THEN [ok |-> FALSE, claims |-> ZeroClaims, stored |-> FALSE]
        ELSE [ok |-> TRUE, claims |-> verified.claims, stored |-> TRUE]

\* authorizationErrorStatus, for err != nil when failed
authorizationErrorStatus(failed) == IF ~failed THEN StatusOK ELSE StatusUnauthorized

(***************************************************************************)
(* pkg/auth/authorizer.go: RequirePermission                               *)
(***************************************************************************)

\* permissions.Metadata{}
ZeroMetadata == [ID |-> "", Service |-> <<>>, BitValue |-> 0]

\* PermissionLookup.LookupPermission on the collaborator's table: [ok, metadata]
LookupPermission(table, code) ==
    IF code \in DOMAIN table
    THEN [ok |-> TRUE, metadata |-> table[code]]
    ELSE [ok |-> FALSE, metadata |-> ZeroMetadata]

\* what a request has produced when the middleware returns; nothing yet
NoOutcome ==
    [status |-> 0, error |-> "", aborted |-> FALSE, handlerRan |-> FALSE,
     claimsStored |-> FALSE, claims |-> ZeroClaims,
     lookups |-> <<>>, hasPermissionCalls |-> <<>>]

\* Authorizer.abortWithJSON / gin's AbortWithStatusJSON
abortWithJSON(o, status, code) ==
    [o EXCEPT !.status = status, !.error = code, !.aborted = TRUE]

\* gin's c.Next(): the downstream handler runs
Next_(o) == [o EXCEPT !.handlerRan = TRUE]

\* a bug: an authentication error answered as a permission failure
abortAuthErrorForbidden(o, failed) ==
    abortWithJSON(o, StatusForbidden, "authorization_failed")

\* Authorizer.abortAuthError
abortAuthError(o, failed) ==
    LET status == authorizationErrorStatus(failed)
    IN  IF status = StatusUnauthorized
        THEN abortWithJSON(o, status, "invalid_token")
        ELSE abortWithJSON(o, status, "authorization_failed")

\* RequirePermission, from the HasPermission check on
CheckBitStage(o, claims, metadata) ==
    LET called == [o EXCEPT !.hasPermissionCalls =
                       Append(@, [service |-> metadata.Service,
                                  bitValue |-> metadata.BitValue])]
    IN  IF ~HasPermission(claims, metadata.Service, metadata.BitValue)
        THEN abortWithJSON(called, StatusForbidden, "permission_denied")
        ELSE Next_(called)

\* a bug: a code the lookup does not know is checked against the zero Metadata
LookupStageUnchecked(o, claims, table, code) ==
    LET found == LookupPermission(table, code)
        called == [o EXCEPT !.lookups = Append(@, code)]
    IN  CheckBitStage(called, claims, found.metadata)

\* a bug: a code the lookup does not know lets the request through
LookupStageDefaultAllow(o, claims, table, code) ==
    LET found == LookupPermission(table, code)
        called == [o EXCEPT !.lookups = Append(@, code)]
    IN  IF ~found.ok THEN Next_(called)
        ELSE CheckBitStage(called, claims, found.metadata)

\* RequirePermission, from the LookupPermission call on
LookupStage(o, claims, table, code) ==
    LET found == LookupPermission(table, code)
        called == [o EXCEPT !.lookups = Append(@, code)]
    IN  IF ~found.ok
        THEN abortWithJSON(called, StatusForbidden, "permission_not_registered")
        ELSE CheckBitStage(called, claims, found.metadata)

\* a bug: a missing collaborator answered as a permission failure
ResolveStageForbidden(o, claims, ctxService, code) ==
    IF ctxService.kind # "lookup"
    THEN abortWithJSON(o, StatusForbidden, "permission_denied")
    ELSE LookupStage(o, claims, ctxService.table, code)

\* RequirePermission, from the read of CtxMiddlewareServiceKey on
ResolveStage(o, claims, ctxService, code) ==
    IF ctxService.kind = "absent"
    THEN abortWithJSON(o, StatusInternalServerError, "service_not_available")
    ELSE IF ctxService.kind # "lookup"
    THEN abortWithJSON(o, StatusInternalServerError, "service_invalid")
    ELSE LookupStage(o, claims, ctxService.table, code)

\* the handler RequirePermission(code) returns, run on one request
RequirePermission(v, req, code) ==
    LET auth == authenticate(v, req)
        o == [NoOutcome EXCEPT !.claimsStored = auth.stored, !.claims = auth.claims]
    IN  IF ~auth.ok THEN abortAuthError(o, TRUE)
        ELSE IF IsServiceToken(auth.claims) THEN Next_(o)
        ELSE ResolveStage(o, auth.claims, req.ctxService, code)

\* auth.GetClaims on the request context: [claims, ok]
GetClaims(o) ==
    IF o.claimsStored THEN [claims |-> o.claims, ok |-> TRUE]
    ELSE [claims |-> ZeroClaims, ok |-> FALSE]

(***************************************************************************)
(* the inputs of the request model                                         *)
(***************************************************************************)

\* the serialized form of the request's token, as one opaque character
TokenText == <<"t">>

HeaderBearer == BearerPrefix \o TokenText

HeaderBearerFolded == <<" ", "b", "E", "A", "R", "E", "R", " ", " ">> \o TokenText \o <<"\t">>

HeaderTwoTokens == BearerPrefix \o TokenText \o <<" ">> \o TokenText

\* headers from which extractBearerToken returns the token
WellFormedHeaders == {HeaderBearer, HeaderBearerFolded}

\* headers from which no verifiable token comes
MalformedHeaders ==
    { <<>>,
      <<" ", "\t">>,
      <<"B", "a", "s", "i", "c", " ">> \o TokenText,
      <<"B", "e", "a", "r", "e", "r">>,
      BearerPrefix,
      <<"B", "e", "a", "r", "e", "r">> \o TokenText \o TokenText,
      <<"B", "e", "a", "r", "e", "r", "\t">> \o TokenText,
      HeaderTwoTokens }

Algs ==
    { [name |-> "RS256", family |-> "RSA", curveBits |-> 0],
      [name |-> "ES256", family |-> "ECDSA", curveBits |-> 256],
      [name |-> "ES384", family |-> "ECDSA", curveBits |-> 384],
      [name |-> "HS256", family |-> "HMAC", curveBits |-> 0] }

Absent == [has |-> FALSE, val |-> <<>>]

Str(s) == [has |-> TRUE, val |-> s]

TokenUses ==
    { Absent,
      Str(<<>>),
      Str(AccessLit),
      Str(ServiceLit),
      Str(<<"S", "E", "R", "V", "I", "C", "E">>),
      Str(<<" ", "S", "e", "r", "v", "i", "c", "e", "\t">>) }

\* "pms:5"
SvcPermFive == <<"p", "m", "s", ":", "5">>

\* "PMS : 2,1 ; ums:-1"
SvcPermMulti ==
    <<"P", "M", "S", " ", ":", " ", "2", ",", "1", " ", ";", " ",
      "u", "m", "s", ":", "-", "1">>

SvcPerms == {Absent, Str(SvcPermFive), Str(SvcPermMulti)}

Issuers == {[has |-> FALSE, val |-> ""], [has |-> TRUE, val |-> "sentinel"],
            [has |-> TRUE, val |-> "other"]}

Audiences ==
    { [kind |-> "absent", vals |-> <<>>],
      [kind |-> "string", vals |-> <<"api">>],
      [kind |-> "array", vals |-> <<"other", "web">>] }

\* the tokens a request can carry; one that fails both the signature and the
\* time check is left out, it is rejected as either of the two alone is
Jwts ==
    { j \in [text : {TokenText}, alg : Algs, signature : {"good", "bad"},
             timeValid : BOOLEAN, iss : Issuers, aud : Audiences,
             token_use : TokenUses, svc_perm : SvcPerms] :
        j.signature = "good" \/ j.timeValid }

\* what a request without a parsable token carries
NoJwt ==
    [text |-> <<>>, alg |-> [name |-> "HS256", family |-> "HMAC", curveBits |-> 0],
     signature |-> "bad", timeValid |-> FALSE, iss |-> [has |-> FALSE, val |-> ""],
     aud |-> [kind |-> "absent", vals |-> <<>>], token_use |-> Absent,
     svc_perm |-> Absent]

PermissionTable ==
    [c \in {"PMS-PRO-CRE", "PMS-PRO-UPD", "UMS-USR-DEL"} |->
        CASE c = "PMS-PRO-CRE" -> [ID |-> "p0", Service |-> <<"P", "M", "S">>, BitValue |-> 0]
          [] c = "PMS-PRO-UPD" -> [ID |-> "p1", Service |-> <<"p", "m", "s">>, BitValue |-> 64]
          [] OTHER -> [ID |-> "u1", Service |-> <<" ", "u", "m", "s">>, BitValue |-> 62]]

Codes == {"PMS-PRO-CRE", "PMS-PRO-UPD", "UMS-USR-DEL", "X-Y-Z"}

CtxServices ==
    { [kind |-> "absent", table |-> PermissionTable],
      [kind |-> "other", table |-> PermissionTable],
      [kind |-> "lookup", table |-> PermissionTable] }

\* the verifiers newJWTVerifier can build
Verifiers ==
    { [publicKey |-> [type |-> "rsa", curveBits |-> 0], issuer |-> "", audiences |-> <<>>],
      [publicKey |-> [type |-> "rsa", curveBits |-> 0], issuer |-> "sentinel",
       audiences |-> <<"api", "web">>],
      [publicKey |-> [type |-> "ecdsa", curveBits |-> 256], issuer |-> "sentinel",
       audiences |-> <<>>] }

NoRequest == [header |-> <<>>, jwt |-> NoJwt, ctxService |-> [kind |-> "absent", table |-> PermissionTable]]

(***************************************************************************)
(* state                                                                   *)
(***************************************************************************)

VARIABLES
    verifier,   \* the Authorizer's jwtVerifier, fixed by NewAuthorizer
    phase,      \* "idle", "received" (the middleware is about to run), "done"
    request,    \* the request in flight
    code,       \* the code the route's RequirePermission was built with
    outcome,    \* what the middleware did to the request
    hpClaims,   \* a Claims value: [decoded, claims]
    hpCall,     \* the last HasPermission call on it: [made, service, bitValue, result]
    heap,       \* the Go maps allocated so far; a map's address is its index
    byCode,     \* Store.byCode: the address of the store's map
    loader,     \* Store.loader: "nil" or "set"
    mu,         \* Store.mu: [writer, readers]
    proc,       \* per goroutine: where it is in its Store call, its locals, its result
    held,       \* per goroutine: the address of the snapshot its caller holds, or 0
    inputs,     \* history: the maps Replace has been called with
    lastInput,  \* history: the map of the Replace that assigned byCode last
    calls,      \* the number of calls started
    tc,         \* TokenCache: [token, expiresAt]; token 0 is the empty string
    tcmu,       \* TokenCache.mu: the goroutine holding the write lock, or ""
    now,        \* time.Now()
    tproc,      \* per goroutine: where it is in its TokenCache call, and its result
    fetchCalls, \* history: the number of FetchToken invocations
    firstFetch, \* history: the outcome of the first FetchToken invocation
    invalidated, \* history: Invalidate has run
    client,     \* the Client's configuration: [retryMax, tokenCache]
    do,         \* the Client.Do call of goroutine "d1": its position, locals and history
    vcall,      \* a Verify call: [made, jwt, keyHanded, ok]
    dcall,      \* a decoding of svc_perm and the HasPermission calls on it
    gcall,      \* GenerateCode calls: [made, a, b, codeA, codeB]
    cat,        \* a Catalog, the slices that share its backing array, and the reads made
    boot        \* the Bootstrap call: its position, the requests it sent, its result

authVars == <<verifier, phase, request, code, outcome>>

claimVars == <<hpClaims, hpCall>>

storeVars == <<heap, byCode, loader, mu, proc, held, inputs, lastInput, calls>>

tokenVars == <<tc, tcmu, now, tproc, fetchCalls, firstFetch, invalidated>>

clientVars == <<client, do>>

httpVars == <<tokenVars, clientVars>>

pureVars == <<vcall, dcall, gcall>>

catalogVars == <<cat>>

bootVars == <<boot>>

otherVars == <<catalogVars, bootVars>>

vars == <<authVars, claimVars, storeVars, httpVars, pureVars, otherVars>>

\* the goroutines that call the Store
Procs == {"g1", "g2"}

NoResult ==
    [kind |-> "none", meta |-> ZeroMetadata, found |-> FALSE, ref |-> 0, count |-> 0,
     metas |-> {}, err |-> ""]

Idle ==
    [pc |-> "idle", op |-> "", perms |-> EmptyMap, todo |-> {}, updated |-> 0,
     arg |-> <<>>, res |-> NoResult, serial |-> 0]

\* NewStore(nil), with no call made
StoreQuiet ==
    /\ heap = <<EmptyMap>>
    /\ byCode = 1
    /\ loader = "nil"
    /\ mu = [writer |-> "", readers |-> {}]
    /\ proc = [p \in Procs |-> Idle]
    /\ held = [p \in Procs |-> 0]
    /\ inputs = {}
    /\ lastInput = EmptyMap
    /\ calls = 0

\* no request is being handled
AuthQuiet ==
    /\ verifier = [publicKey |-> [type |-> "rsa", curveBits |-> 0], issuer |-> "",
                   audiences |-> <<>>]
    /\ phase = "idle"
    /\ request = NoRequest
    /\ code = "X-Y-Z"
    /\ outcome = NoOutcome

NoCall == [made |-> FALSE, service |-> <<>>, bitValue |-> 0, result |-> FALSE]

\* no Claims value is being queried
ClaimsQuiet ==
    /\ hpClaims = [decoded |-> FALSE, claims |-> ZeroClaims]
    /\ hpCall = NoCall

\* 100 * time.Millisecond, a time.Duration: the bits of 100000000 ns
Millis100 == {8, 13, 14, 15, 16, 18, 20, 21, 22, 23, 24, 26}

\* the zero TokenCache entry: no token, the zero time
NoToken == [token |-> 0, expiresAt |-> 0]

NoFetch == [status |-> "none", token |-> 0, expiresAt |-> 0]

\* NewTokenCache(provider, refreshBuffer), with no call made
TokenQuiet ==
    /\ tc = NoToken
    /\ tcmu = ""
    /\ now = 0
    /\ tproc = <<>>
    /\ fetchCalls = 0
    /\ firstFetch = NoFetch
    /\ invalidated = FALSE

\* no request of the rejected kind has been answered
NoAfter401 == [set |-> FALSE, token |-> 0, rejected |-> 0, fetchesAt401 |-> 0,
               invalidatedBetween |-> FALSE]

\* no Do call in progress
DoIdle ==
    [pc |-> "idle", attempt |-> 0, carried |-> 0, lastErr |-> "nil", ctxDone |-> FALSE,
     status |-> 0, hooksRun |-> <<>>, checked401 |-> FALSE, sent |-> 0,
     invalidations |-> 0, invalidatedFor |-> 0, transportOnly |-> TRUE,
     pending401 |-> FALSE, fetchesAt401 |-> 0, rejected |-> 0, after401 |-> NoAfter401,
     resp |-> 0, err |-> "", delay |-> {}, cancelledIn |-> ""]

\* NewClient(), with no call made
ClientQuiet ==
    /\ client = [retryMax |-> 3, tokenCache |-> FALSE, retryDelay |-> Millis100]
    /\ do = DoIdle

HttpQuiet == TokenQuiet /\ ClientQuiet

\* no call of Verify, of the decoder or of GenerateCode is being followed
PureQuiet ==
    /\ vcall = [made |-> FALSE]
    /\ dcall = [made |-> FALSE]
    /\ gcall = [made |-> FALSE]

\* the writes to slices followed per Catalog
MaxEdits == 2

\* no Catalog has been built
NoCatalog == [pc |-> "none"]

\* Bootstrap has not been called
BootIdle == [pc |-> "idle"]

\* no Catalog is being followed, and no Bootstrap call
OtherQuiet ==
    /\ cat = NoCatalog
    /\ boot = BootIdle

AuthInit ==
    /\ verifier \in Verifiers
    /\ phase = "idle"
    /\ request = NoRequest
    /\ code = "X-Y-Z"
    /\ outcome = NoOutcome
    /\ ClaimsQuiet
    /\ StoreQuiet
    /\ HttpQuiet
    /\ PureQuiet
    /\ OtherQuiet

\* a request arrives at a route guarded by RequirePermission(c)
Receive ==
    /\ phase = "idle"
    /\ \E h \in WellFormedHeaders \cup MalformedHeaders, cs \in CtxServices, c \in Codes :
          /\ \/ h \in WellFormedHeaders /\ \E j \in Jwts :
                    request' = [header |-> h, jwt |-> j, ctxService |-> cs]
             \/ h \in MalformedHeaders
                /\ request' = [header |-> h, jwt |-> NoJwt, ctxService |-> cs]
          /\ code' = c
    /\ phase' = "received"
    /\ outcome' = NoOutcome
    /\ UNCHANGED <<verifier, claimVars, storeVars, httpVars, pureVars, otherVars>>

\* the middleware runs to its return
Handle ==
    /\ phase = "received"
    /\ outcome' = RequirePermission(verifier, request, code)
    /\ phase' = "done"
    /\ UNCHANGED <<verifier, request, code, claimVars, storeVars, httpVars, pureVars, otherVars>>

\* the request is over; its context is dropped
Finish ==
    /\ phase = "done"
    /\ phase' = "idle"
    /\ request' = NoRequest
    /\ code' = "X-Y-Z"
    /\ outcome' = NoOutcome
    /\ UNCHANGED <<verifier, claimVars, storeVars, httpVars, pureVars, otherVars>>

AuthNext == Receive \/ Handle \/ Finish

Spec == AuthInit /\ [][AuthNext]_vars

(***************************************************************************)
(* properties of RequirePermission                                         *)
(***************************************************************************)

Done == phase = "done"

\* the ways authentication fails, read off the request and the verifier
HeaderMissing == TrimSpace(request.header) = <<>>

HeaderNotBearer == request.header \in MalformedHeaders

SignatureFails ==
    \/ request.jwt.signature = "bad"
    \/ ~request.jwt.timeValid
    \/ request.jwt.alg.family # (IF verifier.publicKey.type = "rsa" THEN "RSA" ELSE "ECDSA")
    \/ request.jwt.alg.curveBits # verifier.publicKey.curveBits

IssuerFails == verifier.issuer # "" /\ request.jwt.iss # [has |-> TRUE, val |-> verifier.issuer]

AudienceFails ==
    /\ verifier.audiences # <<>>
    /\ {request.jwt.aud.vals[i] : i \in 1..Len(request.jwt.aud.vals)}
          \cap {verifier.audiences[i] : i \in 1..Len(verifier.audiences)} = {}

AuthenticationFails ==
    HeaderMissing \/ HeaderNotBearer \/ SignatureFails \/ IssuerFails \/ AudienceFails

\* the request's token verifies
Authenticated == ~AuthenticationFails

\* the claims the request context holds once the middleware has run
RequestClaims == GetClaims(outcome).claims

\* the three conditions under which a non-service caller is let through
LookupPresent == request.ctxService.kind = "lookup"

CodeRegistered == code \in DOMAIN request.ctxService.table

BitGranted ==
    HasPermission(RequestClaims, request.ctxService.table[code].Service,
                  request.ctxService.table[code].BitValue)

MayProceed ==
    /\ Authenticated
    /\ \/ IsServiceToken(RequestClaims)
       \/ LookupPresent /\ CodeRegistered /\ BitGranted

\* C1: the downstream handler runs only for an authenticated request that
\* carries a service token or whose code is registered with a present lookup
\* collaborator and granted by HasPermission; every other request is aborted
\* and its handler never runs.
C1_HandlerOnlyIfAllowed ==
    Done => /\ outcome.handlerRan => MayProceed
            /\ ~MayProceed => outcome.aborted /\ ~outcome.handlerRan

C1_Witness ==
    /\ Done
    /\ outcome.handlerRan
    /\ ~IsServiceToken(RequestClaims)
    /\ Len(outcome.hasPermissionCalls) = 1

\* the token_use claim is the word "service" in some letter case
TokenUseIsService ==
    request.jwt.token_use.has /\ ToLower(request.jwt.token_use.val) = ServiceLit

\* C3: a verified token whose token_use is "service" in any letter case always
\* reaches the handler, whatever the code, the svc_perm claim, the lookup table
\* and the presence of the lookup collaborator.
C3_ServiceTokenBypass ==
    (Done /\ Authenticated /\ TokenUseIsService)
        => outcome.handlerRan /\ ~outcome.aborted

C3_Witness ==
    /\ Done
    /\ Authenticated
    /\ request.jwt.token_use.val = <<"S", "E", "R", "V", "I", "C", "E">>
    /\ request.ctxService.kind = "absent"
    /\ code = "X-Y-Z"
    /\ ~request.jwt.svc_perm.has
    /\ outcome.handlerRan

\* C4: for an authenticated non-service request whose code the lookup does not
\* know, the answer is 403 "permission_not_registered", the handler does not
\* run and HasPermission is never consulted.
C4_UnregisteredRejected ==
    (Done /\ Authenticated /\ ~IsServiceToken(RequestClaims)
          /\ LookupPresent /\ ~CodeRegistered)
        => /\ outcome.status = StatusForbidden
           /\ outcome.error = "permission_not_registered"
           /\ outcome.aborted
           /\ ~outcome.handlerRan
           /\ outcome.hasPermissionCalls = <<>>

C4_Witness ==
    /\ Done
    /\ Authenticated
    /\ ~IsServiceToken(RequestClaims)
    /\ LookupPresent
    /\ code = "X-Y-Z"
    /\ outcome.lookups = <<"X-Y-Z">>
    /\ outcome.error = "permission_not_registered"

\* C5: for an authenticated non-service request whose context holds no value
\* under CtxMiddlewareServiceKey, or one that is no PermissionLookup, the
\* answer is 500 and the handler does not run.
C5_MissingLookupIsServerError ==
    (Done /\ Authenticated /\ ~IsServiceToken(RequestClaims) /\ ~LookupPresent)
        => /\ outcome.status = StatusInternalServerError
           /\ outcome.aborted
           /\ ~outcome.handlerRan

C5_Witness ==
    /\ Done
    /\ Authenticated
    /\ ~IsServiceToken(RequestClaims)
    /\ request.ctxService.kind = "other"
    /\ outcome.status = StatusInternalServerError
    /\ outcome.error = "service_invalid"

\* C6: when authentication fails (no header, no bearer form, or a token that
\* fails the signature, issuer or audience check) the answer is 401
\* "invalid_token", the handler does not run and GetClaims finds no claims.
C6_AuthFailureIs401 ==
    (Done /\ AuthenticationFails)
        => /\ outcome.status = StatusUnauthorized
           /\ outcome.error = "invalid_token"
           /\ outcome.aborted
           /\ ~outcome.handlerRan
           /\ ~GetClaims(outcome).ok

C6_Witness ==
    /\ Done
    /\ request.header = HeaderBearerFolded
    /\ ~SignatureFails
    /\ IssuerFails
    /\ ~AudienceFails
    /\ outcome.status = StatusUnauthorized

\* the cases of AuthenticationFails are exactly the failures of authenticate
AuthenticationFailsIsExact == AuthenticationFails <=> ~authenticate(verifier, request).ok

(***************************************************************************)
(* Claims.HasPermission called on arbitrary Claims values                  *)
(***************************************************************************)

\* "pms:1;pms:4": the later entry of a service replaces the earlier
SvcPermTwice == <<"p", "m", "s", ":", "1", ";", "p", "m", "s", ":", "4">>

\* "pms:z,0,-1 ; Ums : 3"
SvcPermThree ==
    <<"p", "m", "s", ":", "z", ",", "0", ",", "-", "1", " ", ";", " ",
      "U", "m", "s", " ", ":", " ", "3">>

\* svc_perm claims, as the issuer writes them
RawSvcPerms == {<<>>, SvcPermFive, SvcPermMulti, SvcPermTwice, SvcPermThree}

\* the int64 with every bit set (-1) and with the sign bit alone (the minimum)
AllOnes == BitPos

SignOnly == {WordBits - 1}

\* ServicePermissions maps built by hand, as the exported field allows: an
\* empty range list, a key that is not lower case, ranges with high bits
HandBuiltPerms ==
    { EmptyMap,
      [k \in {<<"p", "m", "s">>} |-> <<>>],
      [k \in {<<"P", "M", "S">>} |-> <<{0}>>],
      [k \in {<<"p", "m", "s">>} |-> <<{62}, SignOnly, {0, 62}>>],
      [k \in {<<"p", "m", "s">>, <<"u", "m", "s">>} |->
          IF k = <<"p", "m", "s">> THEN <<AllOnes>> ELSE <<{}, {1}>>] }

ClaimsValues ==
    { [decoded |-> TRUE,
       claims |-> [TokenUse |-> AccessLit,
                   ServicePermissions |-> decodeServicePermissionsMultiRange(raw)]] :
         raw \in RawSvcPerms }
    \cup
    { [decoded |-> FALSE, claims |-> [TokenUse |-> AccessLit, ServicePermissions |-> m]] :
         m \in HandBuiltPerms }

ServiceArgs ==
    { <<"p", "m", "s">>, <<" ", "P", "m", "S", "\t">>, <<"u", "m", "s">>, <<>>,
      <<"x">> }



BitValueArgs == {-64, -1, 0, 1, 2, 61, 62, 63, 64, 65, 125, 126, 127, 188, 189, 2147483647}

ClaimsInit ==
    /\ AuthQuiet
    /\ StoreQuiet
    /\ HttpQuiet
    /\ PureQuiet
    /\ OtherQuiet
    /\ hpClaims \in ClaimsValues
    /\ hpCall = NoCall

\* some code calls claims.HasPermission(service, bitValue)
CallHasPermission ==
    /\ ~hpCall.made
    /\ \E service \in ServiceArgs, bitValue \in BitValueArgs :
          hpCall' = [made |-> TRUE, service |-> service, bitValue |-> bitValue,
                     result |-> HasPermission(hpClaims.claims, service, bitValue)]
    /\ UNCHANGED <<hpClaims, authVars, storeVars, httpVars, pureVars, otherVars>>

\* the next token's claims
NextClaims ==
    /\ hpCall.made
    /\ hpClaims' \in ClaimsValues
    /\ hpCall' = NoCall
    /\ UNCHANGED <<authVars, storeVars, httpVars, pureVars, otherVars>>

ClaimsNext == CallHasPermission \/ NextClaims

SpecClaims == ClaimsInit /\ [][ClaimsNext]_vars

\* the ranges HasPermission is to read: those of the trimmed, lower-cased service
CalledRanges ==
    LET key == ToLower(TrimSpace(hpCall.service))
    IN  IF key \in DOMAIN hpClaims.claims.ServicePermissions
        THEN hpClaims.claims.ServicePermissions[key]
        ELSE <<>>

\* bit b of the int64 x, read as (x >> b) & 1 == 1
BitIsOne(x, b) == 0 \in ShiftRight(x, b)

\* the reference predicate of HasPermission
Granted(ranges, bitValue) ==
    /\ bitValue >= 0
    /\ ranges # <<>>
    /\ bitValue \div RangeBits < Len(ranges)
    /\ BitIsOne(ranges[(bitValue \div RangeBits) + 1], bitValue % RangeBits)

\* C2: HasPermission(service, bitValue) is true exactly when bitValue >= 0, the
\* trimmed lower-cased service has a non-empty range list, bitValue/63 is an
\* index of it and bit bitValue%63 of that range is one.
C2_HasPermissionIsReference ==
    hpCall.made => (hpCall.result <=> Granted(CalledRanges, hpCall.bitValue))

C2_Witness ==
    /\ hpCall.made
    /\ hpCall.bitValue = 188
    /\ hpCall.service = <<" ", "P", "m", "S", "\t">>
    /\ Len(CalledRanges) = 3
    /\ hpCall.result

\* C7: position 0 is a permission like any other: for a service whose decoded
\* first range has bit 0 set, HasPermission(service, 0) is true.
C7_PositionZeroGranted ==
    (hpCall.made /\ hpClaims.decoded /\ hpCall.bitValue = 0
        /\ CalledRanges # <<>> /\ 0 \in CalledRanges[1])
        => hpCall.result

C7_Witness ==
    /\ hpCall.made
    /\ hpClaims.decoded
    /\ hpCall.bitValue = 0
    /\ CalledRanges = <<{0, 2}>>
    /\ hpCall.result

(***************************************************************************)
(* pkg/permissions: Store                                                  *)
(***************************************************************************)

\* the bound on the calls the goroutines start, snapshot edits included
MaxCalls == 3

M1 == [ID |-> "i1", Service |-> <<"p", "m", "s">>, BitValue |-> 0]

M2 == [ID |-> "i2", Service |-> <<"U", "m", "s">>, BitValue |-> 1]

M3 == [ID |-> "i3", Service |-> <<"P", "M", "S">>, BitValue |-> 64]

KeyA == <<"a">>

KeyALead == <<" ", "a">>

KeyATrail == <<"a", "\t">>

KeyB == <<"b">>

KeyBlank == <<" ">>

\* the maps callers pass to Replace: empty; keys to trim; a key of spaces only;
\* two keys that trim to the same code
ReplaceInputs ==
    { EmptyMap,
      [k \in {KeyALead, KeyB} |-> IF k = KeyB THEN M2 ELSE M1],
      [k \in {KeyBlank, KeyA} |-> IF k = KeyA THEN M2 ELSE M3],
      [k \in {KeyALead, KeyATrail} |-> IF k = KeyALead THEN M1 ELSE M2] }

\* what the loader returns: a map, or an error
LoaderResults ==
    { [err |-> "", data |-> [k \in {KeyB} |-> M3]],
      [err |-> "", data |-> [k \in {KeyATrail, KeyB} |-> IF k = KeyB THEN M1 ELSE M3]],
      [err |-> "loader failed", data |-> EmptyMap] }

LookupArgs == {KeyA, KeyALead, KeyB, KeyBlank}

ListArgs == {<<"p", "m", "s">>, <<" ", "u", "M", "S">>, <<>>}

\* the entries a caller writes into a snapshot it holds
EditKeys == {KeyA, <<"z">>}

ErrLoaderNotConfigured == "permission loader not configured"

\* sync.RWMutex: Lock and RLock can be taken
CanLock == mu.writer = "" /\ mu.readers = {}

CanRLock == mu.writer = ""

\* a Go map delete
MapDelete(m, k) == [x \in (DOMAIN m) \ {k} |-> m[x]]

\* a bug: the key is stored as given
ReplaceKeyRaw(c) == c

\* the key Replace stores an entry under
ReplaceKey(c) == TrimSpace(c)

\* a bug: Replace writes the entries into the map the store already serves
ReplaceTargetInPlace(updated, current) == current

\* the map Replace writes the entries into
ReplaceTarget(updated, current) == updated

\* one iteration of Replace's loop, for the entry of key k, on the heap
ReplaceInsert(h, target, perms, k) ==
    IF ReplaceKey(k) = <<>> THEN h
    ELSE [h EXCEPT ![target] = MapPut(@, ReplaceKey(k), perms[k])]

\* a bug: Snapshot hands out the store's own map
SnapshotAlias(h, current) == [heap |-> h, ref |-> current]

\* Snapshot's copy: a new map with every entry of the store's map
SnapshotCopyOf(h, current) == [heap |-> Append(h, h[current]), ref |-> Len(h) + 1]

\* Lookup's read of byCode[trimmed]
StoreLookup(m, trimmed) ==
    IF trimmed \in DOMAIN m THEN [meta |-> m[trimmed], found |-> TRUE]
    ELSE [meta |-> ZeroMetadata, found |-> FALSE]

\* ListByService's scan, as the set of the Metadata values found
ListOf(m, normalized) ==
    {m[k] : k \in {j \in DOMAIN m : EqualFold(m[j].Service, normalized)}}

\* Count's len(s.byCode)
CountOf(m) == Cardinality(DOMAIN m)

Returned(p, res) == [proc EXCEPT ![p] = [Idle EXCEPT !.res = res]]

\* inside Load, the place of its loader invocation; 0 in any other call
LoadSerial(p, op) == IF op = "Load" THEN proc[p].serial ELSE 0

\* Replace takes the lock; an empty input is answered with a new empty map
ReplaceBegin(p, op, perms) ==
    /\ CanLock
    /\ mu' = [mu EXCEPT !.writer = p]
    /\ inputs' = inputs \cup {perms}
    /\ heap' = Append(heap, EmptyMap)
    /\ IF DOMAIN perms = {}
       THEN /\ byCode' = Len(heap) + 1
            /\ lastInput' = perms
            /\ proc' = [proc EXCEPT ![p] =
                          [Idle EXCEPT !.pc = "replace_unlock", !.op = op, !.perms = perms,
                                       !.serial = LoadSerial(p, op)]]
       ELSE /\ proc' = [proc EXCEPT ![p] =
                          [Idle EXCEPT !.pc = "replace_loop", !.op = op, !.perms = perms,
                                       !.todo = DOMAIN perms, !.updated = Len(heap) + 1,
                                       !.serial = LoadSerial(p, op)]]
            /\ UNCHANGED <<byCode, lastInput>>
    /\ UNCHANGED <<loader, held>>

\* a caller calls Replace(perms)
ReplaceLock(p) ==
    /\ proc[p].pc = "idle"
    /\ calls < MaxCalls
    /\ calls' = calls + 1
    /\ \E perms \in ReplaceInputs : ReplaceBegin(p, "Replace", perms)
    /\ UNCHANGED <<authVars, claimVars, httpVars, pureVars, otherVars>>

\* Load calls Replace(data)
LoadReplaceLock(p) ==
    /\ proc[p].pc = "load_replace"
    /\ ReplaceBegin(p, "Load", proc[p].perms)
    /\ UNCHANGED <<calls, authVars, claimVars, httpVars, pureVars, otherVars>>

\* the loop of Replace visits one more entry, in the map's iteration order
ReplaceLoop(p) ==
    /\ proc[p].pc = "replace_loop"
    /\ \E k \in proc[p].todo :
          /\ heap' = ReplaceInsert(heap, ReplaceTarget(proc[p].updated, byCode),
                                   proc[p].perms, k)
          /\ proc' = [proc EXCEPT ![p].todo = @ \ {k}]
    /\ UNCHANGED <<byCode, loader, mu, held, inputs, lastInput, calls, authVars, claimVars, httpVars, pureVars, otherVars>>

\* s.byCode = updated
ReplaceSwap(p) ==
    /\ proc[p].pc = "replace_loop"
    /\ proc[p].todo = {}
    /\ byCode' = proc[p].updated
    /\ lastInput' = proc[p].perms
    /\ proc' = [proc EXCEPT ![p].pc = "replace_unlock"]
    /\ UNCHANGED <<heap, loader, mu, held, inputs, calls, authVars, claimVars, httpVars, pureVars, otherVars>>

\* the deferred Unlock; Replace returns, to its caller or into Load
ReplaceUnlock(p) ==
    /\ proc[p].pc = "replace_unlock"
    /\ mu' = [mu EXCEPT !.writer = ""]
    /\ proc' = IF proc[p].op = "Load"
               THEN [proc EXCEPT ![p] = [Idle EXCEPT !.pc = "load_snapshot", !.op = "Load",
                                                     !.perms = proc[p].perms,
                                                     !.serial = proc[p].serial]]
               ELSE Returned(p, [NoResult EXCEPT !.kind = "replaced"])
    /\ UNCHANGED <<heap, byCode, loader, held, inputs, lastInput, calls, authVars, claimVars, httpVars, pureVars, otherVars>>

\* Lookup with a code that trims to nothing returns without the lock
LookupEmpty(p) ==
    /\ proc[p].pc = "idle"
    /\ calls < MaxCalls
    /\ calls' = calls + 1
    /\ \E c \in LookupArgs :
          /\ TrimSpace(c) = <<>>
          /\ proc' = Returned(p, [NoResult EXCEPT !.kind = "lookup"])
    /\ UNCHANGED <<heap, byCode, loader, mu, held, inputs, lastInput, authVars, claimVars, httpVars, pureVars, otherVars>>

\* Lookup takes the read lock
LookupRLock(p) ==
    /\ proc[p].pc = "idle"
    /\ calls < MaxCalls
    /\ calls' = calls + 1
    /\ CanRLock
    /\ \E c \in LookupArgs :
          /\ TrimSpace(c) # <<>>
          /\ proc' = [proc EXCEPT ![p] =
                        [Idle EXCEPT !.pc = "lookup_read", !.op = "Lookup",
                                     !.arg = TrimSpace(c)]]
    /\ mu' = [mu EXCEPT !.readers = @ \cup {p}]
    /\ UNCHANGED <<heap, byCode, loader, held, inputs, lastInput, authVars, claimVars, httpVars, pureVars, otherVars>>

\* Lookup reads the map, releases the lock and returns
LookupRead(p) ==
    /\ proc[p].pc = "lookup_read"
    /\ LET r == StoreLookup(heap[byCode], proc[p].arg)
       IN  proc' = [proc EXCEPT ![p] =
                      [Idle EXCEPT !.arg = proc[p].arg,
                                   !.res = [NoResult EXCEPT !.kind = "lookup",
                                                            !.meta = r.meta,
                                                            !.found = r.found]]]
    /\ mu' = [mu EXCEPT !.readers = @ \ {p}]
    /\ UNCHANGED <<heap, byCode, loader, held, inputs, lastInput, calls, authVars, claimVars, httpVars, pureVars, otherVars>>

\* a caller calls Snapshot, which takes the read lock
SnapshotRLock(p) ==
    /\ proc[p].pc = "idle"
    /\ calls < MaxCalls
    /\ calls' = calls + 1
    /\ CanRLock
    /\ proc' = [proc EXCEPT ![p] = [Idle EXCEPT !.pc = "snapshot_copy", !.op = "Snapshot"]]
    /\ mu' = [mu EXCEPT !.readers = @ \cup {p}]
    /\ UNCHANGED <<heap, byCode, loader, held, inputs, lastInput, authVars, claimVars, httpVars, pureVars, otherVars>>

\* Load calls Snapshot
LoadSnapshotRLock(p) ==
    /\ proc[p].pc = "load_snapshot"
    /\ CanRLock
    /\ proc' = [proc EXCEPT ![p] = [Idle EXCEPT !.pc = "snapshot_copy", !.op = "Load",
                                                !.perms = proc[p].perms,
                                                !.serial = proc[p].serial]]
    /\ mu' = [mu EXCEPT !.readers = @ \cup {p}]
    /\ UNCHANGED <<heap, byCode, loader, held, inputs, lastInput, calls, authVars, claimVars, httpVars, pureVars, otherVars>>

\* Snapshot copies the map, releases the lock and returns the copy
SnapshotCopy(p) ==
    /\ proc[p].pc = "snapshot_copy"
    /\ LET c == SnapshotCopyOf(heap, byCode)
       IN  /\ heap' = c.heap
           /\ held' = [held EXCEPT ![p] = c.ref]
           /\ proc' = [Returned(p, [NoResult EXCEPT
                                       !.kind = IF proc[p].op = "Load" THEN "loaded"
                                                ELSE "snapshot",
                                       !.ref = c.ref])
                          EXCEPT ![p].perms = proc[p].perms, ![p].serial = proc[p].serial]
    /\ mu' = [mu EXCEPT !.readers = @ \ {p}]
    /\ UNCHANGED <<byCode, loader, inputs, lastInput, calls, authVars, claimVars, httpVars, pureVars, otherVars>>

\* Load reads s.loader under the read lock; without a loader it fails
LoadGetLoader(p) ==
    /\ proc[p].pc = "idle"
    /\ calls < MaxCalls
    /\ calls' = calls + 1
    /\ CanRLock
    /\ proc' = IF loader = "nil"
               THEN Returned(p, [NoResult EXCEPT !.kind = "error",
                                                 !.err = ErrLoaderNotConfigured])
               ELSE [proc EXCEPT ![p] = [Idle EXCEPT !.pc = "load_call", !.op = "Load"]]
    /\ UNCHANGED <<heap, byCode, loader, mu, held, inputs, lastInput, authVars, claimVars, httpVars, pureVars, otherVars>>

\* the place of a loader invocation in the order in which the loader returned
NextSerial ==
    1 + CHOOSE n \in {proc[q].serial : q \in Procs} :
            \A q \in Procs : proc[q].serial <= n

\* a bug: Load goes on to Replace whatever the loader returned
LoaderErrIgnored(r) == FALSE

\* Load's test of the loader's result: err != nil
LoaderFailed(r) == r.err # ""

\* the loader returns
LoaderCall(p) ==
    /\ proc[p].pc = "load_call"
    /\ \E r \in LoaderResults :
          proc' = IF LoaderFailed(r)
                  THEN Returned(p, [NoResult EXCEPT !.kind = "error", !.err = r.err])
                  ELSE [proc EXCEPT ![p] =
                          [Idle EXCEPT !.pc = "load_replace", !.op = "Load",
                                       !.perms = r.data,
                                       !.serial = NextSerial]]
    /\ UNCHANGED <<heap, byCode, loader, mu, held, inputs, lastInput, calls, authVars,
                   claimVars, httpVars, pureVars, otherVars>>

\* ListByService: an empty service returns nil without the lock, any other
\* scans the map under the read lock
ListByService(p) ==
    /\ proc[p].pc = "idle"
    /\ calls < MaxCalls
    /\ calls' = calls + 1
    /\ \E service \in ListArgs :
          LET normalized == TrimSpace(service)
          IN  \/ /\ normalized = <<>>
                 /\ proc' = Returned(p, [NoResult EXCEPT !.kind = "list"])
              \/ /\ normalized # <<>>
                 /\ CanRLock
                 /\ proc' = Returned(p, [NoResult EXCEPT
                                            !.kind = "list",
                                            !.metas = ListOf(heap[byCode], normalized)])
    /\ UNCHANGED <<heap, byCode, loader, mu, held, inputs, lastInput, authVars, claimVars, httpVars, pureVars, otherVars>>

\* Count
Count(p) ==
    /\ proc[p].pc = "idle"
    /\ calls < MaxCalls
    /\ calls' = calls + 1
    /\ CanRLock
    /\ proc' = Returned(p, [NoResult EXCEPT !.kind = "count",
                                            !.count = CountOf(heap[byCode])])
    /\ UNCHANGED <<heap, byCode, loader, mu, held, inputs, lastInput, authVars, claimVars, httpVars, pureVars, otherVars>>

\* SetLoader
SetLoader(p) ==
    /\ proc[p].pc = "idle"
    /\ calls < MaxCalls
    /\ calls' = calls + 1
    /\ CanLock
    /\ \E l \in {"nil", "set"} : l # loader /\ loader' = l
    /\ proc' = Returned(p, [NoResult EXCEPT !.kind = "loader set"])
    /\ UNCHANGED <<heap, byCode, mu, held, inputs, lastInput, authVars, claimVars, httpVars, pureVars, otherVars>>

\* the caller of Snapshot or Load writes to the map it was given, or deletes
\* from it
EditSnapshot(p) ==
    /\ proc[p].pc = "idle"
    /\ held[p] # 0
    /\ calls < MaxCalls
    /\ calls' = calls + 1
    /\ \E k \in EditKeys :
          \/ heap' = [heap EXCEPT ![held[p]] = MapPut(@, k, M3)]
          \/ /\ k \in DOMAIN heap[held[p]]
             /\ heap' = [heap EXCEPT ![held[p]] = MapDelete(@, k)]
    /\ proc' = Returned(p, [NoResult EXCEPT !.kind = "edited", !.ref = held[p]])
    /\ UNCHANGED <<byCode, loader, mu, held, inputs, lastInput, authVars, claimVars, httpVars, pureVars, otherVars>>

\* NewStore(loader)
StoreInit ==
    /\ AuthQuiet
    /\ ClaimsQuiet
    /\ HttpQuiet
    /\ PureQuiet
    /\ OtherQuiet
    /\ heap = <<EmptyMap>>
    /\ byCode = 1
    /\ loader \in {"nil", "set"}
    /\ mu = [writer |-> "", readers |-> {}]
    /\ proc = [p \in Procs |-> Idle]
    /\ held = [p \in Procs |-> 0]
    /\ inputs = {}
    /\ lastInput = EmptyMap
    /\ calls = 0

StoreNext ==
    \E p \in Procs :
        \/ ReplaceLock(p) \/ ReplaceLoop(p) \/ ReplaceSwap(p) \/ ReplaceUnlock(p)
        \/ LookupEmpty(p) \/ LookupRLock(p) \/ LookupRead(p)
        \/ SnapshotRLock(p) \/ SnapshotCopy(p)
        \/ LoadGetLoader(p) \/ LoaderCall(p) \/ LoadReplaceLock(p) \/ LoadSnapshotRLock(p)
        \/ ListByService(p) \/ Count(p) \/ SetLoader(p)
        \/ EditSnapshot(p)

SpecStore == StoreInit /\ [][StoreNext]_vars

(***************************************************************************)
(* properties of the Store                                                 *)
(***************************************************************************)

\* the codes a map has entries for once its keys are trimmed
TrimmedKeys(m) == {TrimSpace(k) : k \in DOMAIN m} \ {<<>>}

\* the values a map gives to the keys that trim to key
ValuesFor(m, key) == {m[k] : k \in {j \in DOMAIN m : TrimSpace(j) = key}}

\* n is m normalised: one entry per trimmed non-empty key of m, with the value
\* of an entry of m that trims to it
IsNormalisationOf(n, m) ==
    /\ DOMAIN n = TrimmedKeys(m)
    /\ \A key \in DOMAIN n : n[key] \in ValuesFor(m, key)

\* a map as its set of entries
PairsOf(m) == {<<k, m[k]>> : k \in DOMAIN m}

\* the entries of m with the keys trimmed and the empty keys dropped
TrimmedPairs(m) == {<<TrimSpace(k), m[k]>> : k \in {j \in DOMAIN m : TrimSpace(j) # <<>>}}

\* no two keys of m trim to the same code
KeysStayDistinct(m) ==
    \A j, k \in DOMAIN m : TrimSpace(j) = TrimSpace(k) => j = k

\* C8: at every instant the store's map is the whole normalised map of one
\* Replace call, the one that assigned byCode last (or the initial empty map),
\* and what a Lookup returned is a whole Metadata value of one Replace input
\* under the looked-up code, or the zero value with "not found".
C8_StoreIsOneReplace ==
    /\ IsNormalisationOf(heap[byCode], lastInput)
    /\ lastInput = EmptyMap \/ lastInput \in inputs
    /\ \A p \in Procs :
          proc[p].res.kind = "lookup" =>
             IF proc[p].res.found
             THEN \E m \in inputs : proc[p].res.meta \in ValuesFor(m, proc[p].arg)
             ELSE proc[p].res.meta = ZeroMetadata

C8_Witness ==
    /\ proc["g2"].res.kind = "lookup"
    /\ proc["g2"].res.found
    /\ proc["g1"].pc = "replace_loop"
    /\ heap[proc["g1"].updated] # EmptyMap
    /\ proc["g1"].todo # {}
    /\ heap[byCode] # EmptyMap
    /\ Cardinality(inputs) = 2

\* the step in which a Snapshot call of p returns
SnapshotReturns(p) == proc[p].pc = "snapshot_copy" /\ proc'[p].pc = "idle"

\* C9 as stated: the snapshot taken after Replace(m) is exactly m with the keys
\* trimmed and the entries of empty keys removed.
C9_SnapshotIsTrimmedInput ==
    [][\A p \in Procs :
          SnapshotReturns(p) =>
             PairsOf(heap'[proc'[p].res.ref]) = TrimmedPairs(lastInput)]_vars

\* C9, amended: the snapshot taken after Replace(m) has one entry for each
\* trimmed non-empty key of m, holding the value of an entry of m whose key
\* trims to it; it is exactly m with the keys trimmed and the empty keys
\* removed when no two keys of m trim to the same code; it is empty when m is.
C9_SnapshotIsNormalisedInput ==
    [][\A p \in Procs :
          SnapshotReturns(p) =>
             /\ IsNormalisationOf(heap'[proc'[p].res.ref], lastInput)
             /\ KeysStayDistinct(lastInput) =>
                   PairsOf(heap'[proc'[p].res.ref]) = TrimmedPairs(lastInput)
             /\ DOMAIN lastInput = {} => DOMAIN heap'[proc'[p].res.ref] = {}]_vars

C9_Witness ==
    /\ proc["g1"].res.kind = "snapshot"
    /\ lastInput = [k \in {KeyALead, KeyB} |-> IF k = KeyB THEN M2 ELSE M1]
    /\ heap[proc["g1"].res.ref] = [k \in {KeyA, KeyB} |-> IF k = KeyB THEN M2 ELSE M1]
    /\ Cardinality(inputs) = 2

\* the step in which a Load call of p returns an error
LoadFails(p) == (LoadGetLoader(p) \/ LoaderCall(p)) /\ proc'[p].res.kind = "error"

\* the maps a loader call that succeeded can have returned
LoadedData == {r.data : r \in {x \in LoaderResults : x.err = ""}}

\* C21: a Load with no loader set returns ErrLoaderNotConfigured, a Load whose
\* loader fails returns the loader's error, and up to and including that return
\* the call changes neither the store's map nor any other map; Load calls
\* Replace only with the data of a loader call that succeeded.
C21_FailedLoadLeavesStore ==
    [][\A p \in Procs :
          /\ LoadFails(p) =>
                /\ <<heap, byCode, lastInput, inputs, loader>>'
                      = <<heap, byCode, lastInput, inputs, loader>>
                /\ proc'[p].res.ref = 0
                /\ IF proc[p].pc = "idle"
                   THEN loader = "nil" /\ proc'[p].res.err = ErrLoaderNotConfigured
                   ELSE proc'[p].res.err \in {r.err : r \in LoaderResults} \ {""}
          /\ proc'[p].pc = "load_call" /\ proc[p].pc # "load_call" =>
                loader = "set" /\ <<heap, byCode>>' = <<heap, byCode>>
          /\ proc'[p].pc = "load_replace" => proc'[p].perms \in LoadedData]_vars

\* both failures have happened: g1's Load found no loader, g2's loader failed
C21_Witness ==
    /\ proc["g1"].res.err = ErrLoaderNotConfigured
    /\ proc["g2"].res.err = "loader failed"
    /\ loader = "set"

\* the Load call of p has returned a map
Loaded(p) == proc[p].pc = "idle" /\ proc[p].res.kind = "loaded"

\* C28: the map a successful Load returns is the normalised data that the
\* loader returned to that same call
C28_LoadReturnsOwnData ==
    [][\A p \in Procs :
          SnapshotCopy(p) /\ proc[p].op = "Load" =>
              IsNormalisationOf(heap'[proc'[p].res.ref], proc[p].perms)]_vars

\* C29: when two Load calls have returned a map, the loader having returned to
\* one before it was invoked for the other, and no other call has replaced the
\* store's map, the store holds the data of the later loader invocation
C29_StoreHoldsLaterLoad ==
    \A p, q \in Procs :
        (/\ Loaded(p) /\ Loaded(q)
         /\ proc[p].serial < proc[q].serial
         /\ inputs \subseteq {proc[p].perms, proc[q].perms}) =>
            /\ lastInput = proc[q].perms
            /\ IsNormalisationOf(heap[byCode], proc[q].perms)

\* C10: a returned snapshot is changed by nothing but its holder's own edits,
\* and an edit of a snapshot changes no Lookup, ListByService, Count or
\* Snapshot result of the store.
C10_SnapshotIndependent ==
    [][/\ \A p \in Procs :
             held[p] # 0 => heap'[held[p]] = heap[held[p]] \/ EditSnapshot(p)
       /\ \A p \in Procs :
             EditSnapshot(p) =>
                /\ heap'[byCode'] = heap[byCode]
                /\ CountOf(heap'[byCode']) = CountOf(heap[byCode])
                /\ \A c \in LookupArgs :
                      StoreLookup(heap'[byCode'], TrimSpace(c))
                         = StoreLookup(heap[byCode], TrimSpace(c))
                /\ \A sv \in ListArgs :
                      ListOf(heap'[byCode'], TrimSpace(sv))
                         = ListOf(heap[byCode], TrimSpace(sv))]_vars

C10_Witness ==
    /\ proc["g1"].res.kind = "edited"
    /\ proc["g2"].res.kind = "replaced"
    /\ heap[byCode] # EmptyMap
    /\ heap[held["g1"]] # heap[byCode]
    /\ heap[held["g1"]] # EmptyMap

(***************************************************************************)
(* pkg/http: the TokenCache                                                *)
(***************************************************************************)

\* the latest instant of the clock
MaxTime == 1

\* the number of FetchToken invocations followed
MaxFetches == 2

\* NewTokenCache's refreshBuffer, in clock units
RefreshBuffer == 1

\* the goroutines that call the TokenCache directly
TokenProcs == {"g1", "g2", "g3"}

\* the goroutines that call IsValid
IsValidProcs == {"g3"}

\* tc.token != "" && now.Before(tc.expiresAt.Add(-tc.refreshBuffer))
tokenValid(c, t) == c.token # 0 /\ t < c.expiresAt - RefreshBuffer

RefreshAlwaysFetches(c, t) == TRUE

\* refreshToken's double check: the provider is asked only without a valid token
RefreshNeedsFetch(c, t) == ~tokenValid(c, t)

\* a goroutine outside any TokenCache call
TokenIdle ==
    [pc |-> "idle", ctxDone |-> FALSE, token |-> 0, err |-> "", refreshed |-> FALSE,
     doneInWait |-> FALSE]

\* the expiry times a provider gives at time t: within the refresh buffer, one
\* instant beyond it, and beyond it at every instant of the clock
Expiries(t) == {t + RefreshBuffer, t + RefreshBuffer + 1, MaxTime + RefreshBuffer + 1}

\* p is blocked in tc.mu.Lock() while q's FetchToken is in progress
WaitsForRefresh(p) ==
    /\ tproc[p].pc = "rt_lock"
    /\ tcmu # ""
    /\ tproc[tcmu].pc = "rt_fetch"

TokenReturn(p, token, err) ==
    [tproc[p] EXCEPT !.pc = "returned", !.token = token, !.err = err]

\* a caller calls GetToken(ctx)
CallGetToken(p) ==
    /\ tproc[p].pc = "idle"
    /\ tproc' = [tproc EXCEPT ![p] = [TokenIdle EXCEPT !.pc = "gt_rlock"]]
    /\ UNCHANGED <<tc, tcmu, now, fetchCalls, firstFetch, invalidated>>

\* GetToken: RLock, the check, RUnlock
GetTokenRead(p) ==
    /\ tproc[p].pc = "gt_rlock"
    /\ tcmu = ""
    /\ tproc' = [tproc EXCEPT ![p] =
                    IF tokenValid(tc, now)
                    THEN TokenReturn(p, tc.token, "")
                    ELSE [tproc[p] EXCEPT !.pc = "rt_lock", !.refreshed = TRUE]]
    /\ UNCHANGED <<tc, tcmu, now, fetchCalls, firstFetch, invalidated>>

\* refreshToken: Lock and the double check; FetchToken is called holding the lock
RefreshLock(p) ==
    /\ tproc[p].pc = "rt_lock"
    /\ tcmu = ""
    /\ IF RefreshNeedsFetch(tc, now)
       THEN /\ fetchCalls < MaxFetches
            /\ tcmu' = p
            /\ fetchCalls' = fetchCalls + 1
            /\ firstFetch' = IF fetchCalls = 0
                             THEN [NoFetch EXCEPT !.status = "pending"]
                             ELSE firstFetch
            /\ tproc' = [tproc EXCEPT ![p].pc = "rt_fetch"]
       ELSE /\ tproc' = [tproc EXCEPT ![p] = TokenReturn(p, tc.token, "")]
            /\ UNCHANGED <<tcmu, fetchCalls, firstFetch>>
    /\ UNCHANGED <<tc, now, invalidated>>

\* FetchToken returns an error; the deferred Unlock runs
FetchFails(p) ==
    /\ tproc[p].pc = "rt_fetch"
    /\ tcmu' = ""
    /\ firstFetch' = IF fetchCalls = 1 /\ firstFetch.status = "pending"
                     THEN [firstFetch EXCEPT !.status = "failed"]
                     ELSE firstFetch
    /\ tproc' = [tproc EXCEPT ![p] = TokenReturn(p, 0, "fetch")]
    /\ UNCHANGED <<tc, now, fetchCalls, invalidated>>

\* FetchToken returns a token and its expiry; they are stored and Unlock runs
FetchSucceeds(p) ==
    /\ tproc[p].pc = "rt_fetch"
    /\ \E expiresAt \in Expiries(now) :
          /\ tc' = [token |-> fetchCalls, expiresAt |-> expiresAt]
          /\ firstFetch' = IF fetchCalls = 1 /\ firstFetch.status = "pending"
                           THEN [status |-> "ok", token |-> fetchCalls,
                                 expiresAt |-> expiresAt]
                           ELSE firstFetch
    /\ tcmu' = ""
    /\ tproc' = [tproc EXCEPT ![p] = TokenReturn(p, fetchCalls, "")]
    /\ UNCHANGED <<now, fetchCalls, invalidated>>

\* a bug: Invalidate leaves the entry as it is
InvalidateKeeps(c) == c

\* Invalidate's assignments: tc.token = "", tc.expiresAt = time.Time{}
InvalidateEntry(c) == NoToken

\* a caller calls Invalidate(): Lock, the entry is cleared, Unlock
Invalidate(p) ==
    /\ tproc[p].pc = "idle"
    /\ tcmu = ""
    /\ tc' = InvalidateEntry(tc)
    /\ invalidated' = TRUE
    /\ UNCHANGED <<tcmu, now, tproc, fetchCalls, firstFetch>>

\* a caller calls IsValid(): RLock, the check, RUnlock
IsValid(p) ==
    /\ tproc[p].pc = "idle"
    /\ tcmu = ""
    /\ tproc' = [tproc EXCEPT ![p] =
                    [TokenIdle EXCEPT !.pc = IF tokenValid(tc, now) THEN "valid"
                                             ELSE "not valid"]]
    /\ UNCHANGED <<tc, tcmu, now, fetchCalls, firstFetch, invalidated>>

\* the caller of GetToken or IsValid goes on
TokenCallOver(p) ==
    /\ tproc[p].pc \in {"returned", "valid", "not valid"}
    /\ tproc' = [tproc EXCEPT ![p] = TokenIdle]
    /\ UNCHANGED <<tc, tcmu, now, fetchCalls, firstFetch, invalidated>>

\* the context of a GetToken call in progress is cancelled
CancelContext(p) ==
    /\ tproc[p].pc \in {"gt_rlock", "rt_lock", "rt_fetch"}
    /\ ~tproc[p].ctxDone
    /\ tproc' = [tproc EXCEPT ![p].ctxDone = TRUE,
                              ![p].doneInWait = WaitsForRefresh(p)]
    /\ UNCHANGED <<tc, tcmu, now, fetchCalls, firstFetch, invalidated>>

\* time passes
Tick ==
    /\ now < MaxTime
    /\ now' = now + 1
    /\ UNCHANGED <<tc, tcmu, tproc, fetchCalls, firstFetch, invalidated>>

TokenInit ==
    /\ AuthQuiet
    /\ ClaimsQuiet
    /\ StoreQuiet
    /\ ClientQuiet
    /\ PureQuiet
    /\ OtherQuiet
    /\ tc = NoToken
    /\ tcmu = ""
    /\ now = 0
    /\ tproc = [p \in TokenProcs |-> TokenIdle]
    /\ fetchCalls = 0
    /\ firstFetch = NoFetch
    /\ invalidated = FALSE

TokenNext ==
    /\ UNCHANGED <<authVars, claimVars, storeVars, clientVars, pureVars, otherVars>>
    /\ \/ \E p \in TokenProcs :
             \/ CallGetToken(p) \/ GetTokenRead(p) \/ RefreshLock(p)
             \/ FetchFails(p) \/ FetchSucceeds(p)
             \/ TokenCallOver(p) \/ CancelContext(p)
             \/ Invalidate(p)
       \/ \E p \in IsValidProcs : IsValid(p)
       \/ Tick

SpecToken == TokenInit /\ [][TokenNext]_vars

(***************************************************************************)
(* properties of the TokenCache                                            *)
(***************************************************************************)

\* the token of the first FetchToken invocation is still valid
FirstFetchServes ==
    /\ firstFetch.status = "ok"
    /\ ~invalidated
    /\ tokenValid([token |-> firstFetch.token, expiresAt |-> firstFetch.expiresAt], now)

\* C11: starting without a valid token, as long as the first FetchToken
\* succeeded with an expiry still more than refreshBuffer ahead (and nobody
\* invalidated the cache), the provider has been invoked exactly once and every
\* GetToken call that has returned returned that fetch's token without error
C11_OneFetchServesAll ==
    FirstFetchServes =>
        /\ fetchCalls = 1
        /\ \A p \in DOMAIN tproc :
              tproc[p].pc = "returned" =>
                  /\ tproc[p].err = ""
                  /\ tproc[p].token = firstFetch.token

\* three calls that all found no valid token have returned, after one fetch
C11_Witness ==
    /\ FirstFetchServes
    /\ fetchCalls = 1
    /\ \A p \in TokenProcs :
          /\ tproc[p].pc = "returned"
          /\ tproc[p].refreshed
          /\ tproc[p].token = 1

\* C12: a GetToken call whose context is cancelled while it waits for another
\* goroutine's refresh returns an error
C12_CancelledWaiterFails ==
    \A p \in DOMAIN tproc :
        (tproc[p].pc = "returned" /\ tproc[p].doneInWait) => tproc[p].err # ""

\* the step in which a GetToken call of p returns a token and a nil error
GetTokenReturns(p) ==
    /\ GetTokenRead(p) \/ RefreshLock(p) \/ FetchSucceeds(p)
    /\ tproc'[p].pc = "returned"
    /\ tproc'[p].err = ""

\* the step in which a GetToken call of p returns the cached token
ReturnsFromCache(p) == GetTokenReturns(p) /\ ~FetchSucceeds(p)

\* C22: Invalidate leaves an entry that is not valid, whatever the entry was;
\* as long as the entry is the cleared one, IsValid returns false and a GetToken
\* call passes both checks and invokes FetchToken; a token is returned from
\* the cache only while it is the entry's token, and the entry gets a token
\* only from a FetchToken invocation that returned after the entry was cleared.
C22_InvalidateForcesFetch ==
    [][\A p \in TokenProcs :
          /\ Invalidate(p) => ~tokenValid(tc', now') /\ tc'.token = 0
          /\ IsValid(p) /\ tc.token = 0 => tproc'[p].pc = "not valid"
          /\ GetTokenRead(p) /\ tc.token = 0 => tproc'[p].pc = "rt_lock"
          /\ RefreshLock(p) /\ tc.token = 0 =>
                tproc'[p].pc = "rt_fetch" /\ fetchCalls' = fetchCalls + 1
          /\ ReturnsFromCache(p) => tproc'[p].token = tc.token /\ tc.token # 0
          /\ tc'.token # tc.token /\ tc'.token # 0 =>
                /\ tc'.token = fetchCalls
                /\ \E q \in TokenProcs : FetchSucceeds(q)]_vars

\* the first token was invalidated while it was still valid: IsValid then
\* returned false to g3 and the GetToken call of g1 fetched the second token
C22_Witness ==
    /\ firstFetch.status = "ok"
    /\ tokenValid([token |-> firstFetch.token, expiresAt |-> firstFetch.expiresAt], now)
    /\ invalidated
    /\ tproc["g3"].pc = "not valid"
    /\ tproc["g1"].pc = "returned"
    /\ tproc["g1"].refreshed
    /\ tproc["g1"].token = 2
    /\ tc.token = 2

\* C23: when GetToken returns a token with a nil error, the token is not empty
\* and the entry holding it is valid at that instant, so that IsValid is true
C23_ReturnedTokenIsValid ==
    [][\A p \in TokenProcs :
          GetTokenReturns(p) =>
              /\ tproc'[p].token # 0
              /\ tc'.token = tproc'[p].token
              /\ tokenValid(tc', now')]_vars

(***************************************************************************)
(* pkg/http: Client.Do                                                     *)
(***************************************************************************)

\* the values WithRetry gives retryMax
RetryMaxes == {1, 2, 3}

\* the response hooks, in the order WithResponseHook registered them
ResponseHooks == <<"h1", "h2">>

\* the status codes of the responses followed
Statuses == {StatusOK, StatusUnauthorized, StatusInternalServerError}

\* the goroutine in Client.Do, and another one using the same TokenCache
DoProc == "d1"

OtherProc == "g1"

\* the values WithRetry gives retryDelay: 100 ms (the default), 1 ns
RetryDelays == {Millis100, {0}}

\* a << n on an int64: the bits that leave the word are lost
ShiftLeft(a, n) == {b + n : b \in a} \cap BitPos

\* a bug: the first retry already waits twice the delay
backoffShiftNext(attempt) == attempt

\* uint(attempt-1), the shift count of the backoff factor
backoffShift(attempt) == attempt - 1

\* time.Duration(1<<uint(attempt-1))
backoffFactor(attempt) == ShiftLeft({0}, backoffShift(attempt))

\* a * f on int64 values, for f zero or a power of two
MulPow2(a, f) == IF f = {} THEN {} ELSE ShiftLeft(a, CHOOSE n \in f : TRUE)

\* waitForRetry's delay := c.retryDelay * time.Duration(1<<uint(attempt-1))
waitDelay(retryDelay, attempt) == MulPow2(retryDelay, backoffFactor(attempt))

\* the time.Duration is more than zero
DelayPositive(d) == d # {} /\ (WordBits - 1) \notin d

LoopContinuesInclusive(attempt, retryMax) == attempt <= retryMax

\* executeWithRetry's loop condition
LoopContinues(attempt, retryMax) == attempt < retryMax

\* a bug: every response that is not a success is retried
shouldRetryOnFailure(status, tokenCache, attempt, retryMax) ==
    status # StatusOK /\ tokenCache /\ attempt < retryMax - 1

\* resp.StatusCode == http.StatusUnauthorized && c.tokenCache != nil && attempt < c.retryMax-1
shouldRetryOn401(status, tokenCache, attempt, retryMax) ==
    status = StatusUnauthorized /\ tokenCache /\ attempt < retryMax - 1

handle401Keeps(c) == c

\* handle401: c.tokenCache.Invalidate()
handle401(c) == NoToken

NextHookReversed(run) == ResponseHooks[Len(ResponseHooks) - Len(run)]

\* applyResponseHooks: the hook that runs after those of run
NextHook(run) == ResponseHooks[Len(run) + 1]

\* Do returns (resp, err)
DoReturns(d, resp, err) == [d EXCEPT !.pc = "done", !.resp = resp, !.err = err]

\* "d1" calls c.tokenCache.GetToken(ctx)
DoGetToken(ctxDone) ==
    tproc' = [tproc EXCEPT ![DoProc] = [TokenIdle EXCEPT !.pc = "gt_rlock",
                                                         !.ctxDone = ctxDone]]

\* Do is called: prepareRequest applies the request hooks, injectToken asks for
\* the token; without a token cache readRequestBody follows at once
DoCall ==
    /\ do.pc = "idle"
    /\ \E hookFails \in BOOLEAN, bodyFails \in BOOLEAN :
          IF hookFails
          THEN /\ do' = DoReturns(DoIdle, 0, "request hook failed")
               /\ UNCHANGED tproc
          ELSE IF client.tokenCache
          THEN /\ ~bodyFails
               /\ do' = [DoIdle EXCEPT !.pc = "inject"]
               /\ DoGetToken(FALSE)
          ELSE /\ do' = IF bodyFails
                        THEN DoReturns(DoIdle, 0, "failed to read request body")
                        ELSE [DoIdle EXCEPT !.pc = "loop"]
               /\ UNCHANGED tproc
    /\ UNCHANGED <<tc, tcmu, now, fetchCalls, firstFetch, invalidated, client>>

\* injectToken's GetToken has returned; readRequestBody follows
DoInjected ==
    /\ do.pc = "inject"
    /\ tproc[DoProc].pc = "returned"
    /\ tproc' = [tproc EXCEPT ![DoProc] = TokenIdle]
    /\ IF tproc[DoProc].err # ""
       THEN do' = DoReturns(do, 0, "failed to get token")
       ELSE \E bodyFails \in BOOLEAN :
               do' = IF bodyFails
                     THEN DoReturns(do, 0, "failed to read request body")
                     ELSE [do EXCEPT !.pc = "loop", !.carried = tproc[DoProc].token]
    /\ UNCHANGED <<tc, tcmu, now, fetchCalls, firstFetch, invalidated, client>>

\* the head of executeWithRetry's loop
DoLoop ==
    /\ do.pc = "loop"
    /\ do' = IF ~LoopContinues(do.attempt, client.retryMax)
             THEN DoReturns(do, 0, "request failed after attempts")
             ELSE IF do.attempt > 0
             THEN [do EXCEPT !.pc = "wait",
                             !.delay = waitDelay(client.retryDelay, do.attempt)]
             ELSE [do EXCEPT !.pc = "send"]
    /\ UNCHANGED <<tokenVars, client>>

\* waitForRetry's select: the context is done, or the delay is over and
\* executeRequest starts, asking for the token when there is a token cache;
\* the timer of a positive delay wins only while the context is not done
DoWaitOver ==
    /\ do.pc = "wait"
    /\ \/ /\ do.ctxDone
          /\ do' = DoReturns(do, 0, "context")
          /\ UNCHANGED tproc
       \/ /\ ~do.ctxDone \/ ~DelayPositive(do.delay)
          /\ IF client.tokenCache
             THEN /\ do' = [do EXCEPT !.pc = "retry_token"]
                  /\ DoGetToken(do.ctxDone)
             ELSE /\ do' = [do EXCEPT !.pc = "send"]
                  /\ UNCHANGED tproc
    /\ UNCHANGED <<tc, tcmu, now, fetchCalls, firstFetch, invalidated, client>>

\* executeRequest's GetToken has returned
DoRetryToken ==
    /\ do.pc = "retry_token"
    /\ tproc[DoProc].pc = "returned"
    /\ tproc' = [tproc EXCEPT ![DoProc] = TokenIdle]
    /\ do' = IF tproc[DoProc].err # ""
             THEN [do EXCEPT !.pc = "loop", !.lastErr = "failed to get token for retry",
                             !.transportOnly = FALSE, !.attempt = @ + 1]
             ELSE [do EXCEPT !.pc = "send", !.carried = tproc[DoProc].token]
    /\ UNCHANGED <<tc, tcmu, now, fetchCalls, firstFetch, invalidated, client>>

\* the request that is sent, as the history keeps it
Sent(d) ==
    [d EXCEPT !.sent = @ + 1,
              !.pending401 = FALSE,
              !.after401 = IF d.pending401
                           THEN [set |-> TRUE, token |-> d.carried,
                                 rejected |-> d.rejected,
                                 fetchesAt401 |-> d.fetchesAt401,
                                 invalidatedBetween |-> d.invalidatedFor = d.sent]
                           ELSE @]

\* c.httpClient.Do(reqClone): a transport error, or a response
DoSend ==
    /\ do.pc = "send"
    /\ \/ do' = [Sent(do) EXCEPT !.pc = "loop", !.lastErr = "transport",
                                 !.attempt = @ + 1]
       \/ \E status \in Statuses :
             do' = [Sent(do) EXCEPT
                       !.pc = "hooks", !.status = status, !.hooksRun = <<>>,
                       !.checked401 = FALSE, !.transportOnly = FALSE,
                       !.pending401 = /\ status = StatusUnauthorized
                                      /\ client.tokenCache
                                      /\ do.attempt + 1 < client.retryMax,
                       !.fetchesAt401 = IF status = StatusUnauthorized
                                        THEN fetchCalls ELSE @,
                       !.rejected = IF status = StatusUnauthorized
                                    THEN do.carried ELSE @]
    /\ UNCHANGED <<tokenVars, client>>

\* applyResponseHooks: the next hook runs, and may fail
DoResponseHook ==
    /\ do.pc = "hooks"
    /\ Len(do.hooksRun) < Len(ResponseHooks)
    /\ \E fails \in BOOLEAN :
          do' = IF fails
                THEN [DoReturns(do, 0, "response hook failed") EXCEPT
                         !.hooksRun = Append(@, NextHook(do.hooksRun))]
                ELSE [do EXCEPT !.hooksRun = Append(@, NextHook(do.hooksRun))]
    /\ UNCHANGED <<tokenVars, client>>

\* the hooks are over: the 401 check
DoCheck401 ==
    /\ do.pc = "hooks"
    /\ Len(do.hooksRun) = Len(ResponseHooks)
    /\ do' = IF shouldRetryOn401(do.status, client.tokenCache, do.attempt, client.retryMax)
             THEN [do EXCEPT !.pc = "handle401", !.checked401 = TRUE]
             ELSE [DoReturns(do, do.status, "") EXCEPT !.checked401 = TRUE]
    /\ UNCHANGED <<tokenVars, client>>

\* handle401: Invalidate takes the lock and clears the entry; the loop continues
DoHandle401 ==
    /\ do.pc = "handle401"
    /\ tcmu = ""
    /\ tc' = handle401(tc)
    /\ invalidated' = TRUE
    /\ do' = [do EXCEPT !.pc = "loop", !.attempt = @ + 1, !.invalidations = @ + 1,
                        !.invalidatedFor = do.sent]
    /\ UNCHANGED <<tcmu, now, tproc, fetchCalls, firstFetch, client>>

\* another Do call on the same Client, as the TokenCache sees it: the request
\* carrying the token that injectToken was given is answered with a 401 on the
\* first attempt, and handle401 invalidates the cache before the retry
PeerHandle401 ==
    /\ tproc[OtherProc].pc = "returned"
    /\ tproc[OtherProc].err = ""
    /\ shouldRetryOn401(StatusUnauthorized, client.tokenCache, 0, client.retryMax)
    /\ tcmu = ""
    /\ tc' = handle401(tc)
    /\ invalidated' = TRUE
    /\ tproc' = [tproc EXCEPT ![OtherProc] = TokenIdle]
    /\ UNCHANGED <<tcmu, now, fetchCalls, firstFetch>>

\* the context given to Do is cancelled
DoCancel ==
    /\ do.pc \notin {"idle", "done"}
    /\ ~do.ctxDone
    /\ do' = [do EXCEPT !.ctxDone = TRUE, !.cancelledIn = do.pc]
    /\ tproc' = IF tproc[DoProc].pc = "idle"
                THEN tproc
                ELSE [tproc EXCEPT ![DoProc].ctxDone = TRUE]
    /\ UNCHANGED <<tc, tcmu, now, fetchCalls, firstFetch, invalidated, client>>

\* the caller of Do goes on
DoOver ==
    /\ do.pc = "done"
    /\ do' = DoIdle
    /\ UNCHANGED <<tokenVars, client>>

\* NewClient(WithRetry(retryMax, delay)), with or without WithTokenProvider
ClientInit ==
    /\ AuthQuiet
    /\ ClaimsQuiet
    /\ StoreQuiet
    /\ PureQuiet
    /\ OtherQuiet
    /\ tc = NoToken
    /\ tcmu = ""
    /\ now = 0
    /\ tproc = [p \in {DoProc, OtherProc} |-> TokenIdle]
    /\ fetchCalls = 0
    /\ firstFetch = NoFetch
    /\ invalidated = FALSE
    /\ client \in [retryMax : RetryMaxes, tokenCache : BOOLEAN, retryDelay : RetryDelays]
    /\ do = DoIdle

ClientNext ==
    /\ UNCHANGED <<authVars, claimVars, storeVars, pureVars, otherVars>>
    /\ \/ DoCall \/ DoInjected \/ DoLoop \/ DoWaitOver \/ DoRetryToken \/ DoSend
       \/ DoResponseHook \/ DoCheck401 \/ DoHandle401 \/ DoCancel \/ DoOver
       \/ /\ client.tokenCache
          /\ UNCHANGED clientVars
          /\ \/ \E p \in {DoProc, OtherProc} :
                   \/ GetTokenRead(p) \/ RefreshLock(p)
                   \/ FetchFails(p) \/ FetchSucceeds(p)
             \/ CallGetToken(OtherProc) \/ TokenCallOver(OtherProc)
             \/ Invalidate(OtherProc) \/ PeerHandle401

SpecClient == ClientInit /\ [][ClientNext]_vars

(***************************************************************************)
(* properties of Client.Do                                                 *)
(***************************************************************************)

\* C13: with a token cache, the request sent next after a 401 answered to an
\* attempt other than the last allowed one is sent after the cache was
\* invalidated for that 401, and carries the token of a FetchToken invocation
\* made after the 401 was received, not the token of the rejected request
C13_RetryCarriesFreshToken ==
    do.after401.set =>
        /\ do.after401.invalidatedBetween
        /\ do.after401.token > do.after401.fetchesAt401
        /\ do.after401.token # do.after401.rejected

\* a request was sent after a 401, with the token of the second fetch
C13_Witness ==
    /\ do.after401.set
    /\ do.after401.rejected = 1
    /\ do.after401.token = 2

\* C14: within one Do call the token cache is invalidated at most once
C14_OneInvalidationPerDo == do.invalidations <= 1

IsPrefix(a, b) == Len(a) <= Len(b) /\ a = SubSeq(b, 1, Len(a))

\* C15: the response hooks run on every response in registration order, all of
\* them before the 401 check is evaluated and before any invalidation for that
\* response; a failing hook ends Do with its error, before the 401 check and
\* with no invalidation for that response
C15_HooksBeforeCheck ==
    /\ IsPrefix(do.hooksRun, ResponseHooks)
    /\ do.checked401 => do.hooksRun = ResponseHooks
    /\ do.pc = "handle401" => do.hooksRun = ResponseHooks
    /\ (do.sent > 0 /\ do.invalidatedFor = do.sent) => do.hooksRun = ResponseHooks
    /\ do.err = "response hook failed" =>
          /\ do.pc = "done"
          /\ do.resp = 0
          /\ do.hooksRun # <<>>
          /\ ~do.checked401
          /\ do.invalidatedFor < do.sent

\* a 401 that is about to be retried has been through both hooks
C15_Witness ==
    /\ do.pc = "handle401"
    /\ do.status = StatusUnauthorized
    /\ do.hooksRun = ResponseHooks

\* Do has returned after attempts that all failed with a transport error
AllTransportErrors == do.pc = "done" /\ do.sent > 0 /\ do.transportOnly

IsFinalResponse ==
    \/ do.status # StatusUnauthorized
    \/ do.attempt + 1 = client.retryMax
    \/ ~client.tokenCache

\* the step in which the loop of executeWithRetry goes on to another attempt
AnotherAttempt == do'.attempt = do.attempt + 1

\* the handling of the response ends in this step
ResponseHandled == do.pc = "hooks" /\ do'.pc # "hooks"

\* Do returns the response it received, with a nil error, attempt unchanged
ReturnsResponse ==
    /\ do'.pc = "done"
    /\ do'.resp = do.status
    /\ do'.err = ""
    /\ do'.sent = do.sent
    /\ do'.attempt = do.attempt

\* C26 as stated: another attempt follows only a transport error or a 401
\* response, and a response that is not a 401, or is a 401 on the last allowed
\* attempt or without a token cache, is returned with a nil error on the
\* attempt that received it
C26_OnlyTransportAnd401Retry ==
    [][/\ AnotherAttempt =>
             \/ do.pc = "send" /\ do'.lastErr = "transport"
             \/ do.pc = "handle401" /\ do.status = StatusUnauthorized
       /\ ResponseHandled /\ IsFinalResponse => ReturnsResponse]_vars

\* C26, amended: another attempt follows only an attempt that failed (a
\* transport error or, on a retry, a token that could not be got) or a 401
\* response with a token cache and attempts left; any other response is
\* returned with a nil error on the attempt that received it, unless a response
\* hook fails on it, and then Do returns no response and the hook's error
C26_RetryOnlyOnFailureOr401 ==
    [][/\ AnotherAttempt =>
             \/ do.pc = "send" /\ do'.lastErr = "transport"
             \/ /\ do.pc = "retry_token"
                /\ do.attempt > 0
                /\ do'.lastErr = "failed to get token for retry"
             \/ /\ do.pc = "handle401"
                /\ do.status = StatusUnauthorized
                /\ ~IsFinalResponse
       /\ ResponseHandled /\ IsFinalResponse =>
             \/ ReturnsResponse /\ do.hooksRun = ResponseHooks
             \/ /\ do'.pc = "done"
                /\ do'.resp = 0
                /\ do'.err = "response hook failed"
                /\ do'.attempt = do.attempt]_vars

\* after a retried 401, a 500 was returned on the second of three attempts
C26_Witness ==
    /\ do.pc = "done"
    /\ do.resp = StatusInternalServerError
    /\ do.err = ""
    /\ do.sent = 2
    /\ do.invalidations = 1
    /\ client.retryMax = 3

\* retryDelay * 2^(k-1), with no bit lost
ExactDelay(retryDelay, k) == {b + (k - 1) : b \in retryDelay}

\* C27: a Do whose context is done while it waits before a retry returns the
\* context's error and no response and sends nothing more, and the delay of
\* the wait before retry attempt k is retryDelay * 2^(k-1)
C27_CancelledWaitEndsDo ==
    /\ [][do.pc = "wait" /\ do.ctxDone /\ do' # do =>
             /\ do'.pc = "done"
             /\ do'.err = "context"
             /\ do'.resp = 0
             /\ do'.sent = do.sent]_vars
    /\ [](do.pc = "wait" =>
             /\ do.attempt >= 1
             /\ do.delay = ExactDelay(client.retryDelay, do.attempt)
             /\ DelayPositive(do.delay))

\* the context was cancelled in the wait before the second retry, which was to
\* last 400 ms, and Do has returned the context's error after two requests
C27_Witness ==
    /\ do.pc = "done"
    /\ do.cancelledIn = "wait"
    /\ do.err = "context"
    /\ do.attempt = 2
    /\ do.sent = 2
    /\ client.retryDelay = Millis100
    /\ do.delay = {9, 14, 15, 16, 17, 19, 21, 22, 23, 24, 25, 27}

\* C30: when two Do calls have each been answered 401 for a request carrying
\* the same token, the 401 handling of the one discards no token fetched after
\* that token was rejected: the entry it clears is empty or holds that token
C30_FreshTokenSurvives401 ==
    [][(/\ PeerHandle401
        /\ do.rejected # 0
        /\ do.rejected = tproc[OtherProc].token) =>
            tc.token \in {0, do.rejected}]_vars

(***************************************************************************)
(* jwtVerifier.Verify and the type of the public key                       *)
(***************************************************************************)

\* the curves an ecdsa.PublicKey can be on
Curves == {"P-224", "P-256", "P-384", "P-521"}

getCurveForECDSAKey(curve) ==
    CASE curve = "P-256" -> 256
      [] curve = "P-384" -> 384
      [] curve = "P-521" -> 521
      [] OTHER -> 0

\* the public keys a jwtVerifier can hold: what parsePublicKey returns, and a
\* key of another type put in the struct directly
VerifyKeys ==
    {[type |-> "rsa", curveBits |-> 0], [type |-> "ed25519", curveBits |-> 0]}
    \cup {[type |-> "ecdsa", curveBits |-> getCurveForECDSAKey(c)] : c \in Curves}

\* the signing methods of the jwt library, by the Go type of token.Method
VerifyAlgs ==
    Algs \cup
    { [name |-> "RS512", family |-> "RSA", curveBits |-> 0],
      [name |-> "PS256", family |-> "RSAPSS", curveBits |-> 0],
      [name |-> "ES512", family |-> "ECDSA", curveBits |-> 521],
      [name |-> "EdDSA", family |-> "Ed25519", curveBits |-> 0],
      [name |-> "none", family |-> "none", curveBits |-> 0] }

VerifyVerifiers ==
    [publicKey : VerifyKeys, issuer : {"", "sentinel"}, audiences : {<<>>}]

\* tokens of every signing method; a good signature is one that verifies when
\* the configured key is given to the token's method
VerifyJwts ==
    [text : {TokenText}, alg : VerifyAlgs, signature : {"good", "bad"},
     timeValid : BOOLEAN, iss : Issuers, aud : {[kind |-> "absent", vals |-> <<>>]},
     token_use : {Absent}, svc_perm : {Str(SvcPermFive)}]

\* a jwtVerifier, with no call made
VerifyInit ==
    /\ verifier \in VerifyVerifiers
    /\ phase = "idle"
    /\ request = NoRequest
    /\ code = "X-Y-Z"
    /\ outcome = NoOutcome
    /\ ClaimsQuiet
    /\ StoreQuiet
    /\ HttpQuiet
    /\ vcall = [made |-> FALSE]
    /\ dcall = [made |-> FALSE]
    /\ gcall = [made |-> FALSE]
    /\ OtherQuiet

\* v.Verify(tokenString) is called
CallVerify ==
    /\ ~vcall.made
    /\ \E jwt \in VerifyJwts :
          vcall' = [made |-> TRUE, jwt |-> jwt,
                    keyHanded |-> KeyFuncAccepts(verifier.publicKey, jwt.alg),
                    ok |-> Verify(verifier, jwt.text, jwt).ok]
    /\ UNCHANGED <<authVars, claimVars, storeVars, httpVars, dcall, gcall, otherVars>>

\* the next token
VerifyOver ==
    /\ vcall.made
    /\ vcall' = [made |-> FALSE]
    /\ UNCHANGED <<authVars, claimVars, storeVars, httpVars, dcall, gcall, otherVars>>

VerifyNext == CallVerify \/ VerifyOver

SpecVerify == VerifyInit /\ [][VerifyNext]_vars

\* the signing method named alg is one the key of the given type and curve
\* size may verify
MethodFitsKey(key, alg) ==
    \/ key.type = "rsa" /\ alg \in {"RS256", "RS384", "RS512"}
    \/ key.type = "ecdsa" /\ key.curveBits = 256 /\ alg = "ES256"
    \/ key.type = "ecdsa" /\ key.curveBits = 384 /\ alg = "ES384"
    \/ key.type = "ecdsa" /\ key.curveBits = 521 /\ alg = "ES512"

\* C17: Verify rejects every token whose signing method does not fit the type
\* (and, for ECDSA, the curve size) of the configured key, and its key function
\* does not return the key for such a token
C17_MethodMustFitKey ==
    (vcall.made /\ ~MethodFitsKey(verifier.publicKey, vcall.jwt.alg.name)) =>
        /\ ~vcall.ok
        /\ ~vcall.keyHanded

\* a P-256 key and an ES384 token that is valid in every other respect
C17_Witness ==
    /\ vcall.made
    /\ verifier.publicKey = [type |-> "ecdsa", curveBits |-> 256]
    /\ vcall.jwt.alg.name = "ES384"
    /\ vcall.jwt.signature = "good"
    /\ vcall.jwt.timeValid
    /\ vcall.jwt.iss = [has |-> TRUE, val |-> verifier.issuer]
    /\ ~vcall.ok

(***************************************************************************)
(* decoding a svc_perm claim with a malformed range                        *)
(***************************************************************************)

\* the characters of a string literal, one by one
Pms == <<"p", "m", "s">>

Ums == <<"u", "m", "s">>

\* svc_perm claims whose "pms" entry has at most one malformed range token:
\* "pms:5,1", "pms:!,1", "pms:1,!,2", "pms:1,!", "PMS : 1 , x.y , 2",
\* "pms:!,1;ums:3", "ums:3,2;pms:4,-,1", "pms:!"
DecodeRaws ==
    { Pms \o <<":", "5", ",", "1">>,
      Pms \o <<":", "!", ",", "1">>,
      Pms \o <<":", "1", ",", "!", ",", "2">>,
      Pms \o <<":", "1", ",", "!">>,
      <<"P", "M", "S", " ", ":", " ", "1", " ", ",", " ", "x", ".", "y", " ", ",", " ", "2">>,
      Pms \o <<":", "!", ",", "1", ";">> \o Ums \o <<":", "3">>,
      Ums \o <<":", "3", ",", "2", ";">> \o Pms \o <<":", "4", ",", "-", ",", "1">>,
      Pms \o <<":", "!">> }

DecodeServices == {Pms, <<"U", "M", "S", " ">>}

DecodeBitValues == {0, 1, 2, 62, 63, 64, 65, 126, 127, 128}

\* no claim has been decoded
DecodeInit ==
    /\ AuthQuiet
    /\ ClaimsQuiet
    /\ StoreQuiet
    /\ HttpQuiet
    /\ vcall = [made |-> FALSE]
    /\ dcall = [made |-> FALSE]
    /\ gcall = [made |-> FALSE]
    /\ OtherQuiet

\* mapClaimsToAuthClaims decodes the claim, and HasPermission is asked of the
\* Claims it produced
CallDecode ==
    /\ ~dcall.made
    /\ \E raw \in DecodeRaws, service \in DecodeServices, bitValue \in DecodeBitValues :
          LET perms == decodeServicePermissionsMultiRange(raw)
              claims == [TokenUse |-> AccessLit, ServicePermissions |-> perms]
          IN  dcall' = [made |-> TRUE, raw |-> raw, service |-> service,
                        bitValue |-> bitValue, perms |-> perms,
                        granted |-> HasPermission(claims, service, bitValue)]
    /\ UNCHANGED <<authVars, claimVars, storeVars, httpVars, vcall, gcall, otherVars>>

\* the next claim
DecodeOver ==
    /\ dcall.made
    /\ dcall' = [made |-> FALSE]
    /\ UNCHANGED <<authVars, claimVars, storeVars, httpVars, vcall, gcall, otherVars>>

DecodeNext == CallDecode \/ DecodeOver

SpecDecode == DecodeInit /\ [][DecodeNext]_vars

\* the range tokens, trimmed and in their written order, of the entry of
\* service key in raw
TokensOf(raw, key) ==
    LET entries == Split(raw, ";")
        Parts(i) == SplitN2(TrimSpace(entries[i]), ":")
        mine == {i \in 1..Len(entries) :
                    /\ Len(Parts(i)) = 2
                    /\ ToLower(TrimSpace(Parts(i)[1])) = key}
    IN  IF mine = {} THEN <<>>
        ELSE LET toks == Split(TrimSpace(Parts(CHOOSE i \in mine : TRUE)[2]), ",")
             IN  [i \in 1..Len(toks) |-> TrimSpace(toks[i])]

\* a well-formed token at index bitValue/63 of the service's entry has bit
\* bitValue%63 set
GrantedAtOriginalIndex(raw, key, bitValue) ==
    LET toks == TokensOf(raw, key)
        i == (bitValue \div RangeBits) + 1
    IN  /\ bitValue >= 0
        /\ i <= Len(toks)
        /\ ParseInt(toks[i]).ok
        /\ (bitValue % RangeBits) \in ParseInt(toks[i]).val

\* every range token of the service's entry is well formed
AllWellFormed(raw, key) ==
    \A i \in 1..Len(TokensOf(raw, key)) : ParseInt(TokensOf(raw, key)[i]).ok

\* C18: with a malformed range token in a service's entry, the Claims are
\* still produced, the services whose entries are well formed keep exactly
\* their ranges, and HasPermission grants the service only positions that a
\* well-formed token grants at its original index
C18_MalformedRangeOnlyDegrades ==
    dcall.made =>
        /\ \A key \in {Pms, Ums} :
              AllWellFormed(dcall.raw, key) =>
                  RangesOf(dcall.perms, key) =
                      [i \in 1..Len(TokensOf(dcall.raw, key)) |->
                          ParseInt(TokensOf(dcall.raw, key)[i]).val]
        /\ dcall.granted =>
              GrantedAtOriginalIndex(dcall.raw, ToLower(TrimSpace(dcall.service)),
                                     dcall.bitValue)

(***************************************************************************)
(* pkg/permissions: GenerateCode and the Catalog                           *)
(***************************************************************************)

\* unicode.ToUpper on one character
UpperChar(c) ==
    IF \E i \in 1..Len(LowerCase) : LowerCase[i] = c
    THEN UpperCase[CHOOSE i \in 1..Len(LowerCase) : LowerCase[i] = c]
    ELSE c

\* strings.ToUpper
ToUpper(s) == [i \in 1..Len(s) |-> UpperChar(s[i])]

\* strings.ReplaceAll(s, " ", "")
RECURSIVE RemoveSpaces(_)
RemoveSpaces(s) ==
    IF s = <<>> THEN <<>>
    ELSE IF Head(s) = " " THEN RemoveSpaces(Tail(s))
    ELSE <<Head(s)>> \o RemoveSpaces(Tail(s))

normalize(s) == ToLower(RemoveSpaces(TrimSpace(s)))

\* GenerateCode, the hyphen join of the normalised inputs
GenerateCode(service, category, action) ==
    normalize(service) \o <<"-">> \o normalize(category) \o <<"-">> \o normalize(action)

\* the closure short of the other GenerateCode: three letters, upper case
short(s) ==
    LET ns == normalize(s)
    IN  IF Len(ns) = 0 THEN <<>>
        ELSE IF Len(ns) >= 3 THEN ToUpper(SubSeq(ns, 1, 3))
        ELSE ToUpper(ns)

\* strings.Join(parts, "-")
RECURSIVE Join(_)
Join(parts) ==
    IF parts = <<>> THEN <<>>
    ELSE IF Len(parts) = 1 THEN Head(parts)
    ELSE Head(parts) \o <<"-">> \o Join(Tail(parts))

\* GenerateCode, the join of the three-letter abbreviations that are not empty
GenerateCodeShort(service, category, subCategory) ==
    LET all == <<short(service), short(category), short(subCategory)>>
    IN  Join(SelectSeq(all, LAMBDA v : v # <<>>))

\* Reference.Code
Code(r) == GenerateCode(r.Service, r.Category, r.Action)

\* NewCatalog's loop
RECURSIVE FillCatalog(_, _)
FillCatalog(definitions, catalog) ==
    IF definitions = <<>> THEN catalog
    ELSE LET def == Head(definitions)
         IN  FillCatalog(Tail(definitions),
                 [catalog EXCEPT !.byName = MapPut(@, def.Name, def),
                                 !.byCode = MapPut(@, Code(def.Reference), def)])

NewCatalog(definitions) ==
    FillCatalog(definitions,
                [definitions |-> definitions, byName |-> EmptyMap, byCode |-> EmptyMap])

\* Catalog.ByCode: [def, ok]
ByCode(c, permCode) ==
    IF permCode \in DOMAIN c.byCode THEN [def |-> c.byCode[permCode], ok |-> TRUE]
    ELSE [def |-> [Reference |-> [Service |-> <<>>, Category |-> <<>>, Action |-> <<>>],
                   Name |-> ""], ok |-> FALSE]

\* Catalog.Codes, as a set
CodesOf(c) == {Code(c.definitions[i].Reference) : i \in 1..Len(c.definitions)}

\* Catalog.Count
CatalogCount(c) == Len(c.definitions)

\* "usr", " USR "
CodeServices == {<<"u", "s", "r">>, <<" ", "U", "S", "R", " ">>}

\* "users", "Us ers", "us<tab>ers", "userroles", "a-b", "a"
CodeCategories ==
    { <<"u", "s", "e", "r", "s">>, <<"U", "s", " ", "e", "r", "s">>,
      <<"u", "s", "\t", "e", "r", "s">>,
      <<"u", "s", "e", "r", "r", "o", "l", "e", "s">>, <<"a", "-", "b">>, <<"a">>}

\* "create", " Create", "c", "b-c"
CodeActions ==
    { <<"c", "r", "e", "a", "t", "e">>, <<" ", "C", "r", "e", "a", "t", "e">>,
      <<"c">>, <<"b", "-", "c">> }

References == [Service : CodeServices, Category : CodeCategories, Action : CodeActions]

\* nothing has been generated
CodeInit ==
    /\ AuthQuiet
    /\ ClaimsQuiet
    /\ StoreQuiet
    /\ HttpQuiet
    /\ vcall = [made |-> FALSE]
    /\ dcall = [made |-> FALSE]
    /\ gcall = [made |-> FALSE]
    /\ OtherQuiet

\* the codes of two references are generated, and a Catalog is built from the
\* two definitions
CallGenerateCode ==
    /\ ~gcall.made
    /\ \E a \in References, b \in References :
          gcall' = [made |-> TRUE, a |-> a, b |-> b,
                    codeA |-> Code(a), codeB |-> Code(b),
                    shortA |-> GenerateCodeShort(a.Service, a.Category, a.Action),
                    shortB |-> GenerateCodeShort(b.Service, b.Category, b.Action),
                    catalog |-> NewCatalog(<<[Reference |-> a, Name |-> "first"],
                                             [Reference |-> b, Name |-> "second"]>>)]
    /\ UNCHANGED <<authVars, claimVars, storeVars, httpVars, vcall, dcall, otherVars>>

\* the next two references
CodeOver ==
    /\ gcall.made
    /\ gcall' = [made |-> FALSE]
    /\ UNCHANGED <<authVars, claimVars, storeVars, httpVars, vcall, dcall, otherVars>>

CodeNext == CallGenerateCode \/ CodeOver

SpecCode == CodeInit /\ [][CodeNext]_vars

\* s without its whitespace, in lower case
Folded(s) == ToLower(SelectSeq(s, LAMBDA c : c \notin WhiteSpace))

\* the two references differ in letter case and whitespace only
SameButCaseAndSpace(a, b) ==
    /\ Folded(a.Service) = Folded(b.Service)
    /\ Folded(a.Category) = Folded(b.Category)
    /\ Folded(a.Action) = Folded(b.Action)

\* C19: GenerateCode is a function of its inputs, and two triples that differ
\* only in letter case or whitespace get the same code
C19_CodeIgnoresCaseAndSpace ==
    gcall.made =>
        /\ gcall.a = gcall.b => gcall.codeA = gcall.codeB /\ gcall.shortA = gcall.shortB
        /\ SameButCaseAndSpace(gcall.a, gcall.b) =>
              /\ gcall.codeA = gcall.codeB
              /\ gcall.shortA = gcall.shortB

\* the normalised (category, action) pair of a reference
NormalPair(r) == <<normalize(r.Category), normalize(r.Action)>>

\* C20: within one service, references whose normalised (category, action)
\* pairs differ get different codes, and a Catalog built from two distinct
\* references has Count() distinct codes and ByCode finds both definitions
C20_CodesDoNotCollide ==
    gcall.made =>
        /\ (/\ normalize(gcall.a.Service) = normalize(gcall.b.Service)
            /\ NormalPair(gcall.a) # NormalPair(gcall.b)) =>
              /\ gcall.codeA # gcall.codeB
              /\ gcall.shortA # gcall.shortB
        /\ NormalPair(gcall.a) # NormalPair(gcall.b) =>
              /\ Cardinality(CodesOf(gcall.catalog)) = CatalogCount(gcall.catalog)
              /\ \A i \in 1..Len(gcall.catalog.definitions) :
                    LET def == gcall.catalog.definitions[i]
                    IN  ByCode(gcall.catalog, Code(def.Reference)) =
                            [def |-> def, ok |-> TRUE]

(***************************************************************************)
(* pkg/permissions: the Catalog and the slices that share its array        *)
(***************************************************************************)

ZeroDefinition ==
    [Reference |-> [Service |-> <<>>, Category |-> <<>>, Action |-> <<>>], Name |-> ""]

DefCreate ==
    [Reference |-> [Service |-> <<"u", "s", "r">>, Category |-> <<"a">>,
                    Action |-> <<"c">>],
     Name |-> "first"]

DefRoles ==
    [Reference |-> [Service |-> <<"u", "s", "r">>, Category |-> <<"a", "-", "b">>,
                    Action |-> <<"c">>],
     Name |-> "second"]

DefOther ==
    [Reference |-> [Service |-> <<"u", "s", "r">>, Category |-> <<"a">>,
                    Action |-> <<"b", "-", "c">>],
     Name |-> "third"]

\* the definitions callers pass to NewCatalog, with the capacity of the slice
CatalogInputs ==
    { [elems |-> <<>>, cap |-> 0],
      [elems |-> <<DefCreate>>, cap |-> 1],
      [elems |-> <<DefCreate, DefRoles>>, cap |-> 2],
      [elems |-> <<DefCreate, DefRoles>>, cap |-> 3] }

\* the definitions callers write into a slice
WrittenDefinitions == {DefOther, DefRoles}

NoSlice == [array |-> 0, len |-> 0, cap |-> 0]

\* a new backing array of the given capacity, holding elems
MakeArray(elems, capacity) ==
    [i \in 1..capacity |-> IF i <= Len(elems) THEN elems[i] ELSE ZeroDefinition]

\* the elements a slice header denotes: array[0:len]
Elems(arrays, slice) ==
    IF slice.array = 0 THEN <<>> ELSE SubSeq(arrays[slice.array], 1, slice.len)

\* Catalog.All: the slice header NewCatalog stored
All(c) == c.definitions

\* NewCatalog on a slice: the indices are filled from the elements, and the
\* definitions field holds the caller's slice header
NewCatalogOf(arrays, slice) ==
    [NewCatalog(Elems(arrays, slice)) EXCEPT !.definitions = slice]

\* the Catalog as its methods read it: the definitions are those the stored
\* slice header denotes now
CatalogView(arrays, c) == [c EXCEPT !.definitions = Elems(arrays, All(c))]

\* Catalog.Codes, in order
CodesList(v) == [i \in 1..Len(v.definitions) |-> Code(v.definitions[i].Reference)]

\* what All, Count, Codes, ByName and ByCode return
Observed(arrays, c) ==
    LET v == CatalogView(arrays, c)
    IN  [all |-> v.definitions, count |-> CatalogCount(v), codes |-> CodesList(v),
         byName |-> v.byName, byCode |-> v.byCode]

CatalogInit ==
    /\ AuthQuiet
    /\ ClaimsQuiet
    /\ StoreQuiet
    /\ HttpQuiet
    /\ PureQuiet
    /\ cat = NoCatalog
    /\ boot = BootIdle

\* the caller builds a slice of definitions and calls NewCatalog with it
CallNewCatalog ==
    /\ cat.pc = "none"
    /\ \E in \in CatalogInputs :
          LET arrays == <<MakeArray(in.elems, in.cap)>>
              slice == [array |-> 1, len |-> Len(in.elems), cap |-> in.cap]
          IN  cat' = [pc |-> "built", arrays |-> arrays, passed |-> slice,
                      catalog |-> NewCatalogOf(arrays, slice), got |-> NoSlice,
                      edits |-> 0]
    /\ UNCHANGED <<authVars, claimVars, storeVars, httpVars, pureVars, bootVars>>

\* a caller calls All() and keeps the slice
CallAll ==
    /\ cat.pc = "built"
    /\ cat.got = NoSlice
    /\ cat' = [cat EXCEPT !.got = All(cat.catalog)]
    /\ UNCHANGED <<authVars, claimVars, storeVars, httpVars, pureVars, bootVars>>

\* slice[i] = d
SliceWrite(arrays, slice, i, d) == [arrays EXCEPT ![slice.array][i] = d]

\* the caller of NewCatalog assigns to an element of the slice it passed
WritePassed ==
    /\ cat.pc = "built"
    /\ cat.edits < MaxEdits
    /\ \E i \in 1..cat.passed.len, d \in WrittenDefinitions :
          cat' = [cat EXCEPT !.arrays = SliceWrite(@, cat.passed, i, d),
                             !.edits = @ + 1]
    /\ UNCHANGED <<authVars, claimVars, storeVars, httpVars, pureVars, bootVars>>

\* the caller of NewCatalog appends to the slice it passed: in place when the
\* capacity allows, into a new array otherwise
AppendPassed ==
    /\ cat.pc = "built"
    /\ cat.edits < MaxEdits
    /\ \E d \in WrittenDefinitions :
          LET sl == cat.passed
          IN  IF sl.len < sl.cap
              THEN cat' = [cat EXCEPT !.arrays = SliceWrite(@, sl, sl.len + 1, d),
                                      !.passed.len = @ + 1,
                                      !.edits = @ + 1]
              ELSE cat' = [cat EXCEPT
                             !.arrays = Append(@, MakeArray(Append(Elems(@, sl), d),
                                                            sl.len + 1)),
                             !.passed = [array |-> Len(cat.arrays) + 1,
                                         len |-> sl.len + 1, cap |-> sl.len + 1],
                             !.edits = @ + 1]
    /\ UNCHANGED <<authVars, claimVars, storeVars, httpVars, pureVars, bootVars>>

\* the caller of All() assigns to an element of the slice it was given
WriteAll ==
    /\ cat.pc = "built"
    /\ cat.got # NoSlice
    /\ cat.edits < MaxEdits
    /\ \E i \in 1..cat.got.len, d \in WrittenDefinitions :
          cat' = [cat EXCEPT !.arrays = SliceWrite(@, cat.got, i, d),
                             !.edits = @ + 1]
    /\ UNCHANGED <<authVars, claimVars, storeVars, httpVars, pureVars, bootVars>>

\* the Catalog is dropped
CatalogOver ==
    /\ cat.pc = "built"
    /\ cat' = NoCatalog
    /\ UNCHANGED <<authVars, claimVars, storeVars, httpVars, pureVars, bootVars>>

CatalogNext ==
    CallNewCatalog \/ CallAll \/ WritePassed \/ AppendPassed \/ WriteAll \/ CatalogOver

SpecCatalog == CatalogInit /\ [][CatalogNext]_vars

\* the values of a map
RangeOf(m) == {m[k] : k \in DOMAIN m}

\* C24: once NewCatalog has returned, no step changes what All, Count, Codes,
\* ByName and ByCode return, and the definitions of All() are those of the
\* ByName index and those of the ByCode index
C24_CatalogImmutable ==
    /\ [][cat.pc = "built" /\ cat'.pc = "built" =>
             Observed(cat'.arrays, cat'.catalog) = Observed(cat.arrays, cat.catalog)]_vars
    /\ [](cat.pc = "built" =>
             LET o == Observed(cat.arrays, cat.catalog)
             IN  /\ {o.all[i] : i \in 1..Len(o.all)} = RangeOf(o.byName)
                 /\ RangeOf(o.byName) = RangeOf(o.byCode))

(***************************************************************************)
(* pkg/permissions: Bootstrap                                              *)
(***************************************************************************)

\* the goroutine that calls Bootstrap
BootProc == "g1"

\* the arguments of Bootstrap: which of them are nil, the configured
\* SentinelServiceEndpoint
BootArgs ==
    [cfg : {"nil", "set"}, logger : {"nil", "set"}, clientFactory : {"nil", "set"},
     catalog : {"nil", "set"}, sentinelURL : {"", "http://sentinel"},
     store : {"nil", "set"}]

\* the bitmask catalogs the authority answers with: per service, per code, the
\* permission's ID and BitValue
BootResponses ==
    { EmptyMap,
      [sv \in {<<"p", "m", "s">>} |->
          [c \in {KeyA, KeyB} |-> IF c = KeyA THEN [ID |-> "i1", BitValue |-> 0]
                                  ELSE [ID |-> "i2", BitValue |-> 1]]],
      [sv \in {<<"p", "m", "s">>, <<"u", "m", "s">>} |->
          [c \in {KeyA} |-> IF sv = <<"p", "m", "s">> THEN [ID |-> "i1", BitValue |-> 0]
                            ELSE [ID |-> "i3", BitValue |-> 64]]] }

\* the codes of a catalog response
ResponseCodes(resp) == UNION {DOMAIN resp[sv] : sv \in DOMAIN resp}

\* loadPermissions' conversion: metadata[code] = Metadata{ID, service, BitValue}
\* for every service and code; when two services have one code, the one the
\* map iteration visits last stays
MetadataMaps(resp) ==
    { m \in [ResponseCodes(resp) ->
                UNION {{[ID |-> resp[sv][c].ID, Service |-> sv,
                         BitValue |-> resp[sv][c].BitValue] : c \in DOMAIN resp[sv]} :
                          sv \in DOMAIN resp}] :
        \A c \in DOMAIN m :
            \E sv \in DOMAIN resp :
                /\ c \in DOMAIN resp[sv]
                /\ m[c] = [ID |-> resp[sv][c].ID, Service |-> sv,
                           BitValue |-> resp[sv][c].BitValue] }

\* the error of Bootstrap's argument checks, "" when they pass
BootArgsError(a) ==
    IF a.cfg = "nil" THEN "config not configured"
    ELSE IF a.logger = "nil" THEN "logger not configured"
    ELSE IF a.clientFactory = "nil" THEN "HTTP client factory not configured"
    ELSE IF a.catalog = "nil" THEN "permission catalog not configured"
    ELSE IF a.sentinelURL = "" THEN "SentinelServiceEndpoint not configured"
    ELSE ""

\* a bug: Bootstrap goes on after a failed bulk create
EnsureErrIgnored(err) == FALSE

\* Bootstrap's test of ensurePermissions' result: err != nil
EnsureFailed(err) == err # ""

BootReturned(err) == [boot EXCEPT !.pc = "returned", !.err = err]

BootInit ==
    /\ AuthQuiet
    /\ ClaimsQuiet
    /\ StoreQuiet
    /\ HttpQuiet
    /\ PureQuiet
    /\ cat = NoCatalog
    /\ boot = BootIdle

\* before Bootstrap, the caller fills the store
BootReplaceBefore ==
    /\ boot.pc = "idle"
    /\ ReplaceLock(BootProc)

\* Bootstrap is called; its argument checks run
CallBootstrap ==
    /\ boot.pc = "idle"
    /\ proc[BootProc].pc = "idle"
    /\ calls < MaxCalls
    /\ calls' = calls + 1
    /\ \E a \in BootArgs :
          boot' = [pc |-> IF BootArgsError(a) = "" THEN "factory" ELSE "returned",
                   args |-> a, sent |-> <<>>, err |-> BootArgsError(a),
                   before |-> byCode, held |-> heap[byCode], metadata |-> EmptyMap,
                   postOK |-> FALSE, getOK |-> FALSE]
    /\ UNCHANGED <<heap, byCode, loader, mu, proc, held, inputs, lastInput, authVars,
                   claimVars, httpVars, pureVars, catalogVars>>

\* the HTTP client is made
BootNewClient ==
    /\ boot.pc = "factory"
    /\ \/ boot' = BootReturned("failed to create HTTP client with token provider")
       \/ boot' = [boot EXCEPT !.pc = "post"]
    /\ UNCHANGED <<authVars, claimVars, storeVars, httpVars, pureVars, catalogVars>>

\* ensurePermissions: the bulk create POST, and Bootstrap's test of its result
BootEnsurePermissions ==
    /\ boot.pc = "post"
    /\ \E err \in {"", "failed to create permissions in sentinel service"} :
          boot' = IF EnsureFailed(err)
                  THEN [BootReturned("failed to ensure permissions") EXCEPT
                           !.sent = Append(@, "POST")]
                  ELSE IF boot.args.store = "nil"
                  THEN [BootReturned("") EXCEPT !.sent = Append(@, "POST"),
                                                !.postOK = (err = "")]
                  ELSE [boot EXCEPT !.pc = "get", !.sent = Append(@, "POST"),
                                    !.postOK = (err = "")]
    /\ UNCHANGED <<authVars, claimVars, storeVars, httpVars, pureVars, catalogVars>>

\* loadPermissions: the bitmask GET and the conversion of the response
BootLoadPermissions ==
    /\ boot.pc = "get"
    /\ \/ boot' = [BootReturned("failed to load permissions") EXCEPT
                      !.sent = Append(@, "GET")]
       \/ \E resp \in BootResponses :
          \E m \in MetadataMaps(resp) :
             boot' = [boot EXCEPT !.pc = "replace", !.sent = Append(@, "GET"),
                                  !.metadata = m, !.getOK = TRUE]
    /\ UNCHANGED <<authVars, claimVars, storeVars, httpVars, pureVars, catalogVars>>

\* loadPermissions calls store.Replace(metadata)
BootReplace ==
    /\ boot.pc = "replace"
    /\ ReplaceBegin(BootProc, "Replace", boot.metadata)
    /\ boot' = [boot EXCEPT !.pc = "replacing"]
    /\ UNCHANGED <<calls, authVars, claimVars, httpVars, pureVars, catalogVars>>

\* the steps of Replace inside Bootstrap
BootReplaceStep ==
    /\ boot.pc # "idle"
    /\ ReplaceLoop(BootProc) \/ ReplaceSwap(BootProc) \/ ReplaceUnlock(BootProc)

\* Replace has returned; loadPermissions and Bootstrap return nil
BootReturn ==
    /\ boot.pc = "replacing"
    /\ proc[BootProc].pc = "idle"
    /\ boot' = BootReturned("")
    /\ UNCHANGED <<authVars, claimVars, storeVars, httpVars, pureVars, catalogVars>>

\* the caller of Bootstrap goes on
BootOver ==
    /\ boot.pc = "returned"
    /\ boot' = BootIdle
    /\ UNCHANGED <<authVars, claimVars, storeVars, httpVars, pureVars, catalogVars>>

BootNext ==
    \/ BootReplaceBefore
    \/ boot.pc = "idle" /\ (ReplaceLoop(BootProc) \/ ReplaceSwap(BootProc)
                              \/ ReplaceUnlock(BootProc))
    \/ CallBootstrap \/ BootNewClient \/ BootEnsurePermissions \/ BootLoadPermissions
    \/ BootReplace \/ BootReplaceStep \/ BootReturn \/ BootOver

SpecBoot == BootInit /\ [][BootNext]_vars

\* C25: Bootstrap sends the bulk-create POST before the bitmask GET and sends
\* the GET only after the POST succeeded; it calls Replace only after both
\* succeeded; when it returns an error the store's map is the one it was when
\* Bootstrap was called, with the same contents.
C25_PushThenPullThenReplace ==
    /\ [](boot.pc # "idle" =>
            /\ boot.sent \in {<<>>, <<"POST">>, <<"POST", "GET">>}
            /\ Len(boot.sent) = 2 => boot.postOK
            /\ boot.pc \in {"replace", "replacing"} => boot.postOK /\ boot.getOK
            /\ (byCode # boot.before \/ heap[byCode] # boot.held) =>
                  /\ boot.postOK /\ boot.getOK
                  /\ IsNormalisationOf(heap[byCode], boot.metadata)
            /\ boot.pc = "returned" =>
                  IF boot.postOK /\ (boot.getOK \/ boot.args.store = "nil")
                  THEN boot.err = ""
                  ELSE /\ boot.err # ""
                       /\ byCode = boot.before
                       /\ heap[byCode] = boot.held)
    /\ [][boot.pc # "idle" /\ <<byCode, heap>>' # <<byCode, heap>> =>
             boot.pc \in {"replace", "replacing"}]_vars

\* the GET failed after a POST that succeeded, on a store that holds data
C25_Witness ==
    /\ boot.pc = "returned"
    /\ boot.err = "failed to load permissions"
    /\ boot.sent = <<"POST", "GET">>
    /\ heap[byCode] # EmptyMap

====
